---- MODULE Spec2Model ----
(***************************************************************************)
(* A model of the resilient client of the Alchemyst AI SDK integration:    *)
(* the bounded TTL cache (LRUCache), the retrying executor                 *)
(* (AlchemystClientImpl.execute over withRetry), error classification      *)
(* (detectErrorFromException) and the client registry                      *)
(* (initAlchemystClient, disposeAllClients).                               *)
(*                                                                         *)
(* Three specifications share the module:                                  *)
(*   SpecCache     one LRUCache driven by get / set / clear / getStats     *)
(*   Spec          one AlchemystClientImpl with overlapping execute calls  *)
(*   SpecRegistry  the process-wide clientRegistry and its instances       *)
(* Time is Date.now() in milliseconds.                                     *)
(***************************************************************************)
EXTENDS Integers, Sequences, FiniteSets, TLC

VARIABLES
    now,          \* Date.now(), in ms
    ticks,        \* how many times the clock has advanced (bounds the run)
    used,         \* how many set and get calls the cache has served (bounds the run)
    cache,        \* the LRUCache: [maxSize, ttl, entries, stats]
    ret,          \* the return value of the last synchronous call, or NoRet
    cfg,          \* the executor's SDKConfig (the fields the executor reads)
    client,       \* AlchemystClientImpl.client, the vendor connection object
    disposed,     \* AlchemystClientImpl.disposed
    metricsData,  \* AlchemystClientImpl.metricsData (the live accumulator)
    metrics,      \* AlchemystClientImpl.metrics (the public readonly property)
    aliased,      \* metrics and metricsData are still the same object
    calls,        \* the execute calls: position and locals of each
    logs,         \* kinds of message handed to the logger so far
    registry,     \* clientRegistry: key -> instance
    instances,    \* every instance constructed so far: [config, disposed]
    epoch,        \* how many times disposeAllClients has run
    initLog       \* the initAlchemystClient calls made: config, instance, epoch

vars == <<now, ticks, used, cache, ret, cfg, client, disposed, metricsData, metrics,
          aliased, calls, logs, registry, instances, epoch, initLog>>

cacheVars == <<cache>>
execVars == <<cfg, client, disposed, metricsData, metrics, aliased, calls, logs>>
regVars == <<registry, instances, epoch, initLog>>

-----------------------------------------------------------------------------
(* Bounds of the model *)

MaxTicks == 2
MaxSizeBound == 2
MaxCacheOps == 4
MaxRetriesBound == 2
MaxCalls == 2
MaxInits == 3
MaxRequests == 3
MaxConfigured == 1
MaxToolCalls == 1
MaxGenerations == 1
FillCapacity == 3
MaxFillOps == 5

(* Program constants *)

MsPerSecond == 1000
ClientCacheSize == 100
DefaultCacheTtl == 300
DefaultMaxRetries == 3
MaxRetriesLimit == 10
BaseDelay == 1000
MaxDelay == 30000
KeyPrefixLen == 8
RetryAfterUnit == 1000
ExponentialBase == 1000
ExponentialCap == 30000

-----------------------------------------------------------------------------
(* Values *)

\* JavaScript undefined where a string is expected (no key and no cached value is
\* spelt this way)
Undefined == "undefined"
NoValue == <<"undefined">>
NoRet == [op |-> "none"]

Min(a, b) == IF a <= b THEN a ELSE b

RECURSIVE Pow2(_)
Pow2(n) == IF n <= 0 THEN 1 ELSE 2 * Pow2(n - 1)

RECURSIVE Gcd(_, _)
Gcd(a, b) == IF b = 0 THEN a ELSE Gcd(b, a % b)

\* A JavaScript number that is a quotient of two integers, kept exact:
\* <<numerator, denominator>> in lowest terms.
Ratio(n, d) == LET g == Gcd(n, d) IN IF g = 0 THEN <<0, 1>> ELSE <<n \div g, d \div g>>

\* JavaScript truthiness of a string-or-undefined value: undefined and the
\* empty string are falsy.
Truthy(v) == v # Undefined /\ v # ""

-----------------------------------------------------------------------------
(* LRUCache: entries is the Map in its iteration order (order of first     *)
(* insertion of each key present).                                         *)

Keys == {"", "a", "b"}
\* The value stored by the n-th cache call: every set stores a value of its own
ValueOf(n) == <<"v", n>>
TtlSeconds == {0, 1}
CacheDeltas == {2, MsPerSecond - 1}

NewCache(maxSize, ttlSeconds) ==
    [maxSize |-> maxSize, ttl |-> ttlSeconds * MsPerSecond, entries |-> <<>>,
     stats |-> [hits |-> 0, misses |-> 0, evictions |-> 0]]

KeysOf(entries) == {entries[i].key : i \in 1..Len(entries)}

IndexOf(entries, key) == CHOOSE i \in 1..Len(entries) : entries[i].key = key

RemoveAt(s, i) == SubSeq(s, 1, i - 1) \o SubSeq(s, i + 1, Len(s))

RECURSIVE Keep(_, _, _)
Keep(entries, ttl, t) ==
    IF entries = <<>> THEN <<>>
    ELSE IF t - Head(entries).timestamp > ttl
         THEN Keep(Tail(entries), ttl, t)
         ELSE <<Head(entries)>> \o Keep(Tail(entries), ttl, t)

Cleanup(c, t) == [c EXCEPT !.entries = Keep(c.entries, c.ttl, t)]

\* LRUCache.get with the expiry test off by one and the stale entry kept
CacheGetStale(c, key, t) ==
    IF key \notin KeysOf(c.entries)
    THEN [cache |-> [c EXCEPT !.stats.misses = @ + 1], value |-> NoValue]
    ELSE LET i == IndexOf(c.entries, key) IN
         IF t - c.entries[i].timestamp >= c.ttl
         THEN [cache |-> [c EXCEPT !.stats.misses = @ + 1], value |-> NoValue]
         ELSE [cache |-> [c EXCEPT !.entries[i].hits = @ + 1, !.stats.hits = @ + 1],
               value |-> c.entries[i].value]

\* LRUCache.get that moves the entry it hits to the end of the iteration order
CacheGetTouch(c, key, t) ==
    IF key \notin KeysOf(c.entries)
    THEN [cache |-> [c EXCEPT !.stats.misses = @ + 1], value |-> NoValue]
    ELSE LET i == IndexOf(c.entries, key) IN
         IF t - c.entries[i].timestamp > c.ttl
         THEN [cache |-> [c EXCEPT !.entries = RemoveAt(@, i), !.stats.misses = @ + 1],
               value |-> NoValue]
         ELSE [cache |-> [c EXCEPT
                            !.entries = Append(RemoveAt(@, i), [c.entries[i] EXCEPT !.hits = @ + 1]),
                            !.stats.hits = @ + 1],
               value |-> c.entries[i].value]

\* LRUCache.get: the cache after the call and the value returned
CacheGet(c, key, t) ==
    IF key \notin KeysOf(c.entries)
    THEN [cache |-> [c EXCEPT !.stats.misses = @ + 1], value |-> NoValue]
    ELSE LET i == IndexOf(c.entries, key) IN
         IF t - c.entries[i].timestamp > c.ttl
         THEN [cache |-> [c EXCEPT !.entries = RemoveAt(@, i), !.stats.misses = @ + 1],
               value |-> NoValue]
         ELSE [cache |-> [c EXCEPT !.entries[i].hits = @ + 1, !.stats.hits = @ + 1],
               value |-> c.entries[i].value]

\* Map.set: a key already present keeps its place in the iteration order
MapSet(entries, e) ==
    IF e.key \in KeysOf(entries)
    THEN [entries EXCEPT ![IndexOf(entries, e.key)] = e]
    ELSE Append(entries, e)

\* LRUCache.set without the sweep of expired entries
CacheSetUnswept(c, key, value, t) ==
    LET firstKey == IF c.entries = <<>> THEN Undefined ELSE Head(c.entries).key
        evicted == IF Len(c.entries) >= c.maxSize /\ Truthy(firstKey)
                   THEN [c EXCEPT !.entries = Tail(@), !.stats.evictions = @ + 1]
                   ELSE c
    IN [evicted EXCEPT
          !.entries = MapSet(@, [key |-> key, value |-> value, timestamp |-> t, hits |-> 0])]

\* LRUCache.set
CacheSet(c, key, value, t) ==
    LET swept == Cleanup(c, t)
        firstKey == IF swept.entries = <<>> THEN Undefined ELSE Head(swept.entries).key
        evicted == IF Len(swept.entries) >= swept.maxSize /\ Truthy(firstKey)
                   THEN [swept EXCEPT !.entries = Tail(@), !.stats.evictions = @ + 1]
                   ELSE swept
    IN [evicted EXCEPT
          !.entries = MapSet(@, [key |-> key, value |-> value, timestamp |-> t, hits |-> 0])]

\* LRUCache.clear
CacheClear(c) ==
    [c EXCEPT !.entries = <<>>, !.stats = [hits |-> 0, misses |-> 0, evictions |-> 0]]

\* LRUCache.getStats with the rates taken against each other instead of
\* against the number of reads
GetStatsOdds(c) ==
    [size |-> Len(c.entries),
     hitRate |-> IF c.stats.misses > 0 THEN Ratio(c.stats.hits, c.stats.misses) ELSE <<0, 1>>,
     missRate |-> IF c.stats.hits > 0 THEN Ratio(c.stats.misses, c.stats.hits) ELSE <<0, 1>>,
     evictions |-> c.stats.evictions]

\* LRUCache.getStats
GetStats(c) ==
    LET total == c.stats.hits + c.stats.misses IN
    [size |-> Len(c.entries),
     hitRate |-> IF total > 0 THEN Ratio(c.stats.hits, total) ELSE <<0, 1>>,
     missRate |-> IF total > 0 THEN Ratio(c.stats.misses, total) ELSE <<0, 1>>,
     evictions |-> c.stats.evictions]

-----------------------------------------------------------------------------
(* Thrown values and their classification (utils/errors.ts).               *)
(* A message is kept as the set of the classifier's patterns that occur in *)
(* its lower-cased text; an optional number is <<>> or <<n>>.              *)

Patterns == {"network", "fetch", "timeout", "validation", "invalid", "auth", "key"}

None == <<>>
Some(x) == <<x>>

\* new AlchemystAIError(message, code, statusCode, details, retryable), with the
\* subclass name and the two details the code ever sets
AIError(name, message, code, statusCode, retryAfter, originalError, retryable) ==
    [t |-> "AlchemystAIError", name |-> name, message |-> message, code |-> code,
     statusCode |-> statusCode, retryAfter |-> retryAfter,
     originalError |-> originalError, retryable |-> retryable]

AuthenticationError(message) ==
    AIError("AuthenticationError", message, "AUTHENTICATION", Some(401), None, None, FALSE)
RateLimitError(message, retryAfter) ==
    AIError("RateLimitError", message, "RATE_LIMIT", Some(429), retryAfter, None, TRUE)
NetworkError(message) ==
    AIError("NetworkError", message, "NETWORK", None, None, None, TRUE)
ValidationError(message) ==
    AIError("ValidationError", message, "VALIDATION", Some(400), None, None, FALSE)
TimeoutError(message) ==
    AIError("TimeoutError", message, "TIMEOUT", Some(408), None, None, TRUE)
AuthorizationError(message) ==
    AIError("AuthorizationError", message, "AUTHORIZATION", Some(403), None, None, FALSE)
NotFoundError(message) ==
    AIError("NotFoundError", message, "NOT_FOUND", Some(404), None, None, FALSE)

\* new Error(message), a thrown string, and the value undefined
PlainError(message) == [t |-> "Error", name |-> "Error", message |-> message]
ThrownString(message) == [t |-> "string", message |-> message]
ThrownUndefined == [t |-> "undefined", message |-> {}]

\* A thrown object that is no Error. String(v) calls its toString and valueOf:
\* it is printable when one of them returns a primitive, which an object
\* without prototype, or one whose toString is no function, does not.
ThrownObject(printable) == [t |-> "object", printable |-> printable]

\* The TypeError String(v) raises: Cannot convert object to primitive value
ConversionError == [t |-> "Error", name |-> "TypeError", message |-> {"convert"}]

Returns(x) == [ok |-> TRUE, value |-> x]
Throws(e) == [ok |-> FALSE, error |-> e]

\* String(v) for a value that is no Error
StringOf(v) ==
    CASE v.t = "string" -> Returns(v.message)
      [] v.t = "undefined" -> Returns({"undefined"})
      [] v.t = "object" ->
           IF v.printable THEN Returns({"[object Object]"}) ELSE Throws(ConversionError)

IsAIError(e) == e.t = "AlchemystAIError"

DetectAllRetryable(error) ==
    IF IsAIError(error) THEN error
    ELSE NetworkError(error.message)

DetectWithoutShortcut(error) ==
    IF error.t \in {"Error", "AlchemystAIError"} THEN
        IF "network" \in error.message \/ "fetch" \in error.message
        THEN NetworkError(error.message)
        ELSE IF "timeout" \in error.message
        THEN TimeoutError(error.message)
        ELSE IF "validation" \in error.message \/ "invalid" \in error.message
        THEN ValidationError(error.message)
        ELSE IF "auth" \in error.message \/ "key" \in error.message
        THEN AuthenticationError(error.message)
        ELSE AIError("AlchemystAIError", error.message, "INTERNAL", None, None,
                     Some(error.name), FALSE)
    ELSE IF StringOf(error).ok
    THEN AIError("AlchemystAIError", StringOf(error).value, "UNKNOWN", None, None,
                 Some(error.t), FALSE)
    ELSE [t |-> "throws", error |-> StringOf(error).error]

\* detectErrorFromException: the error it returns, or, tagged throws, the
\* error it raises itself
DetectErrorFromException(error) ==
    IF IsAIError(error) THEN error
    ELSE IF error.t = "Error" THEN
        IF "network" \in error.message \/ "fetch" \in error.message
        THEN NetworkError(error.message)
        ELSE IF "timeout" \in error.message
        THEN TimeoutError(error.message)
        ELSE IF "validation" \in error.message \/ "invalid" \in error.message
        THEN ValidationError(error.message)
        ELSE IF "auth" \in error.message \/ "key" \in error.message
        THEN AuthenticationError(error.message)
        ELSE AIError("AlchemystAIError", error.message, "INTERNAL", None, None,
                     Some(error.name), FALSE)
    ELSE IF StringOf(error).ok
    THEN AIError("AlchemystAIError", StringOf(error).value, "UNKNOWN", None, None,
                 Some(error.t), FALSE)
    ELSE [t |-> "throws", error |-> StringOf(error).error]

\* The parsed response body, as far as the code reads it: the fields message,
\* error and retryAfter, each present or not. A message is the set of words
\* it contains, and the empty string is the empty set.
Details(message, error, retryAfter) ==
    [message |-> message, error |-> error, retryAfter |-> retryAfter]

\* details stays undefined: no response text, or text that is not JSON
NoDetails == Details(None, None, None)

UnknownErrorMessage == {"unknown", "error"}

\* a || b on two optional strings: the first that is present and not empty
OrElse(a, b) == IF a # None /\ a[1] # {} THEN a ELSE b

\* detectErrorFromResponse, from the parsed body on. Of details an error keeps
\* retryAfter here: the one field of it that is read again.
DetectErrorFromResponse(status, details) ==
    LET message == OrElse(OrElse(details.message, details.error),
                          Some(UnknownErrorMessage))[1]
    IN CASE status = 401 -> AuthenticationError(message)
         [] status = 403 -> AuthorizationError(message)
         [] status = 404 -> NotFoundError(message)
         [] status = 408 -> TimeoutError(message)
         [] status = 429 -> RateLimitError(message, details.retryAfter)
         [] status = 400 ->
              [ValidationError(message) EXCEPT !.retryAfter = details.retryAfter]
         [] OTHER ->
              IF status >= 500
              THEN AIError("AlchemystAIError", message, "INTERNAL", Some(status),
                           details.retryAfter, None, TRUE)
              ELSE AIError("AlchemystAIError", message, "UNKNOWN", Some(status),
                           details.retryAfter, None, FALSE)

\* getRetryDelay, for a classified error: no caller in the repository
GetRetryDelay(error, attempt) ==
    IF /\ error.name = "RateLimitError"
       /\ error.retryAfter # None
       /\ error.retryAfter[1] # 0
    THEN error.retryAfter[1] * RetryAfterUnit
    ELSE Min(ExponentialBase * Pow2(attempt - 1), ExponentialCap)

RetryDelayUncapped(attempt) == BaseDelay * Pow2(attempt - 1)

\* The delay withRetry computes after failed attempt number attempt
RetryDelay(attempt) == Min(BaseDelay * Pow2(attempt - 1), MaxDelay)

-----------------------------------------------------------------------------
(* AlchemystClientImpl: metrics, and the operations handed to execute      *)

NoError == [t |-> "none", message |-> {}]

\* The metrics object the constructor and resetMetrics build
FreshMetrics(t) ==
    [totalRequests |-> 0, successfulRequests |-> 0, failedRequests |-> 0,
     averageResponseTime |-> <<0, 1>>, cacheHits |-> 0, cacheMisses |-> 0,
     retryCount |-> 0, lastError |-> NoError, uptime |-> 0, startTime |-> t]

UpdateResponseTimeHalved(m, responseTime) ==
    LET total == m.successfulRequests + m.failedRequests
        avg == m.averageResponseTime
    IN IF total = 1
       THEN [m EXCEPT !.averageResponseTime = Ratio(responseTime, 1)]
       ELSE [m EXCEPT !.averageResponseTime =
                Ratio(avg[1] + responseTime * avg[2], avg[2] * 2)]

\* AlchemystClientImpl.updateResponseTime
UpdateResponseTime(m, responseTime) ==
    LET total == m.successfulRequests + m.failedRequests
        avg == m.averageResponseTime
    IN IF total = 1
       THEN [m EXCEPT !.averageResponseTime = Ratio(responseTime, 1)]
       ELSE [m EXCEPT !.averageResponseTime =
                Ratio(avg[1] * (total - 1) + responseTime * avg[2], avg[2] * total)]

\* AlchemystClientImpl.getMetrics
GetMetrics(m, c, t) ==
    LET st == GetStats(c) IN
    [m EXCEPT !.uptime = t - m.startTime,
              !.cacheHits = Ratio(st.hitRate[1] * (m.cacheHits + m.cacheMisses), st.hitRate[2]),
              !.cacheMisses = Ratio(st.missRate[1] * (m.cacheHits + m.cacheMisses), st.missRate[2])]

\* AlchemystClientImpl.healthCheck: the value its promise resolves with. It
\* reads the connection object alone; the try block cannot throw.
HealthCheck(c) == IF c = Undefined THEN FALSE ELSE TRUE

\* What one invocation of a backend operation does: resolve, or reject with a
\* thrown value
Ok == [ok |-> TRUE]
Fail(e) == [ok |-> FALSE, error |-> e]

ErrNetwork == PlainError({"network"})
ErrInvalid == PlainError({"invalid"})
ErrRateLimit == RateLimitError({}, Some(2))
DisposedError == PlainError({"disposed"})

\* A backend operation is the script of its invocations; the last outcome repeats.
Ops == { <<Ok>>, <<Fail(ErrNetwork)>>, <<Fail(ErrInvalid)>>, <<Fail(ErrRateLimit), Ok>> }

OutcomeAt(op, n) == op[Min(n, Len(op))]

Settled(kind, value) == [kind |-> kind, value |-> value]
Pending == [kind |-> "pending", value |-> NoError]

\* withRetry after a failed attempt: propagate the classified error or retry
RetryAlways(lastError, attempt, maxAttempts) ==
    IF attempt >= maxAttempts THEN "throw" ELSE "retry"

RetryDecision(lastError, attempt, maxAttempts) ==
    IF ~lastError.retryable THEN "throw"
    ELSE IF attempt >= maxAttempts THEN "throw"
    ELSE "retry"

-----------------------------------------------------------------------------
(* The parts of the state a specification does not drive stay as built.   *)

IdleExec ==
    /\ cfg = [maxRetries |-> DefaultMaxRetries, debug |-> FALSE, cacheTtl |-> DefaultCacheTtl]
    /\ client = "sdk"
    /\ disposed = FALSE
    /\ metricsData = FreshMetrics(0)
    /\ metrics = FreshMetrics(0)
    /\ aliased = TRUE
    /\ calls = <<>>
    /\ logs = {}

IdleRegistry ==
    /\ registry = [k \in {} |-> 0]
    /\ instances = <<>>
    /\ epoch = 0
    /\ initLog = <<>>

-----------------------------------------------------------------------------
(* SpecCache: one LRUCache and a simulated clock *)

InitCache ==
    /\ now = 0
    /\ ticks = 0
    /\ used = 0
    /\ \E maxSize \in 0..MaxSizeBound, ttlSeconds \in TtlSeconds :
          cache = NewCache(maxSize, ttlSeconds)
    /\ ret = NoRet
    /\ IdleExec
    /\ IdleRegistry

CGet(key) ==
    /\ used < MaxCacheOps
    /\ used' = used + 1
    /\ LET r == CacheGet(cache, key, now) IN
         /\ cache' = r.cache
         /\ ret' = [op |-> "get", key |-> key, value |-> r.value]
    /\ UNCHANGED <<now, ticks, execVars, regVars>>

CSet(key) ==
    /\ used < MaxCacheOps
    /\ used' = used + 1
    /\ cache' = CacheSet(cache, key, ValueOf(used'), now)
    /\ ret' = [op |-> "set", key |-> key]
    /\ UNCHANGED <<now, ticks, execVars, regVars>>

CClear ==
    /\ cache' = CacheClear(cache)
    /\ ret' = NoRet
    /\ UNCHANGED <<now, ticks, used, execVars, regVars>>

CGetStats ==
    /\ ret' = [op |-> "getStats", value |-> GetStats(cache)]
    /\ UNCHANGED <<now, ticks, used, cache, execVars, regVars>>

CTick(d) ==
    /\ ticks < MaxTicks
    /\ now' = now + d
    /\ ticks' = ticks + 1
    /\ ret' = NoRet
    /\ UNCHANGED <<used, cache, execVars, regVars>>

NextCache ==
    \/ \E key \in Keys : CGet(key)
    \/ \E key \in Keys : CSet(key)
    \/ CClear
    \/ CGetStats
    \/ \E d \in CacheDeltas : CTick(d)

SpecCache == InitCache /\ [][NextCache]_vars

-----------------------------------------------------------------------------
(* SpecFill: one LRUCache of capacity FillCapacity that is only written,    *)
(* long enough for a key to be overwritten before the cache is full.        *)

InitFill ==
    /\ now = 0
    /\ ticks = 0
    /\ used = 0
    /\ \E ttlSeconds \in TtlSeconds : cache = NewCache(FillCapacity, ttlSeconds)
    /\ ret = NoRet
    /\ IdleExec
    /\ IdleRegistry

FSet(key) ==
    /\ used < MaxFillOps
    /\ used' = used + 1
    /\ cache' = CacheSet(cache, key, ValueOf(used'), now)
    /\ ret' = [op |-> "set", key |-> key]
    /\ UNCHANGED <<now, ticks, execVars, regVars>>

NextFill ==
    \/ \E key \in Keys : FSet(key)
    \/ \E d \in CacheDeltas : CTick(d)

SpecFill == InitFill /\ [][NextFill]_vars

-----------------------------------------------------------------------------
(* Spec: one AlchemystClientImpl. An execute call runs in steps, one per    *)
(* stretch of code between two awaits:                                     *)
(*   Execute      the synchronous start, up to the first invocation        *)
(*   OpSettles    the operation's promise settles: withRetry's catch       *)
(*   TimerFires   the backoff timer fires: the next invocation             *)
(*   Finish       withRetry's promise has settled: execute's own tail      *)
(* The clock advances when a backoff timer fires. The read-only calls      *)
(* healthCheck(), getMetrics() and getCacheStats() are the operators       *)
(* HealthCheck, GetMetrics and GetStats applied to the state.              *)

ExecDeltas == {10}

RetriesRange == 0..Min(MaxRetriesBound, MaxRetriesLimit)

Init ==
    /\ now = 0
    /\ ticks = 0
    /\ used = 0
    /\ \E maxRetries \in RetriesRange, debug \in BOOLEAN :
          cfg = [maxRetries |-> maxRetries, debug |-> debug, cacheTtl |-> DefaultCacheTtl]
    /\ cache = NewCache(ClientCacheSize, cfg.cacheTtl)
    /\ client = "sdk"
    /\ disposed = FALSE
    /\ metricsData = FreshMetrics(0)
    /\ metrics = FreshMetrics(0)
    /\ aliased = TRUE
    /\ calls = <<>>
    /\ logs = IF cfg.debug THEN {"initialized"} ELSE {}
    /\ ret = NoRet
    /\ IdleRegistry

\* A write to this.metricsData: the public metrics property shows it only
\* while it is still the same object
SetMetrics(m) ==
    /\ metricsData' = m
    /\ metrics' = IF aliased THEN m ELSE metrics
    /\ UNCHANGED aliased

Log(tags) == logs' = logs \cup tags

NewCall(op) ==
    [pc |-> "idle", op |-> op, startTime |-> 0, attempt |-> 0, invoked |-> 0,
     retries |-> 0, waits |-> <<>>, deadline |-> 0, pending |-> Pending,
     result |-> Pending]

ExecuteUnfenced(op, withContext) ==
    /\ Len(calls) < MaxCalls
    /\ Log(IF withContext /\ cfg.debug THEN {"context"} ELSE {})
    /\ ret' = NoRet
    /\ SetMetrics([metricsData EXCEPT !.totalRequests = @ + 1])
    /\ calls' = Append(calls,
                  IF 1 <= cfg.maxRetries
                  THEN [NewCall(op) EXCEPT !.pc = "awaitingOp", !.startTime = now,
                                           !.attempt = 1, !.invoked = 1]
                  ELSE [NewCall(op) EXCEPT !.pc = "settling", !.startTime = now,
                                           !.attempt = 1,
                                           !.pending = Settled("error", ThrownUndefined)])
    /\ UNCHANGED <<now, ticks, used, cache, cfg, client, disposed, regVars>>

ExecuteCallContextUncounted(op, withContext) ==
    /\ Log(IF withContext /\ cfg.debug THEN {"context"} ELSE {})
    /\ ret' = NoRet
    /\ IF disposed
       THEN /\ calls' = Append(calls, [NewCall(op) EXCEPT
                                         !.pc = "rejected",
                                         !.result = Settled("error", DisposedError)])
            /\ UNCHANGED <<metricsData, metrics, aliased>>
       ELSE /\ SetMetrics([metricsData EXCEPT !.totalRequests =
                                        IF withContext THEN @ ELSE @ + 1])
            /\ calls' = Append(calls,
                  IF 1 <= cfg.maxRetries
                  THEN [NewCall(op) EXCEPT !.pc = "awaitingOp", !.startTime = now,
                                           !.attempt = 1, !.invoked = 1]
                  ELSE [NewCall(op) EXCEPT !.pc = "settling", !.startTime = now,
                                           !.attempt = 1,
                                           !.pending = Settled("error", ThrownUndefined)])
    /\ UNCHANGED <<now, ticks, used, cache, cfg, client, disposed, regVars>>

\* execute(operation) and executeWithContext(operation, context), up to the
\* first await
ExecuteCall(op, withContext) ==
    /\ Log(IF withContext /\ cfg.debug THEN {"context"} ELSE {})
    /\ ret' = NoRet
    /\ IF disposed
       THEN /\ calls' = Append(calls, [NewCall(op) EXCEPT
                                         !.pc = "rejected",
                                         !.result = Settled("error", DisposedError)])
            /\ UNCHANGED <<metricsData, metrics, aliased>>
       ELSE /\ SetMetrics([metricsData EXCEPT !.totalRequests = @ + 1])
            /\ calls' = Append(calls,
                  IF 1 <= cfg.maxRetries
                  THEN [NewCall(op) EXCEPT !.pc = "awaitingOp", !.startTime = now,
                                           !.attempt = 1, !.invoked = 1]
                  ELSE [NewCall(op) EXCEPT !.pc = "settling", !.startTime = now,
                                           !.attempt = 1,
                                           !.pending = Settled("error", ThrownUndefined)])
    /\ UNCHANGED <<now, ticks, used, cache, cfg, client, disposed, regVars>>

\* The same, for as many requests as the model follows
Execute(op, withContext) ==
    /\ Len(calls) < MaxCalls
    /\ ExecuteCall(op, withContext)

\* The promise of the running invocation settles: withRetry returns the value,
\* or classifies the failure and throws it or schedules a retry
OpSettles(c) ==
    /\ calls[c].pc = "awaitingOp"
    /\ ret' = NoRet
    /\ LET call == calls[c]
           outcome == OutcomeAt(call.op, call.invoked)
       IN IF outcome.ok
          THEN /\ calls' = [calls EXCEPT ![c].pc = "settling",
                                         ![c].pending = Settled("value", NoError)]
               /\ UNCHANGED <<metricsData, metrics, aliased, logs>>
          ELSE LET lastError == DetectErrorFromException(outcome.error) IN
               IF lastError.t = "throws"
               THEN /\ calls' = [calls EXCEPT ![c].pc = "settling",
                                              ![c].pending = Settled("error", lastError.error)]
                    /\ UNCHANGED <<metricsData, metrics, aliased, logs>>
               ELSE
               IF RetryDecision(lastError, call.attempt, cfg.maxRetries) = "throw"
               THEN /\ calls' = [calls EXCEPT ![c].pc = "settling",
                                              ![c].pending = Settled("error", lastError)]
                    /\ UNCHANGED <<metricsData, metrics, aliased, logs>>
               ELSE /\ SetMetrics([metricsData EXCEPT !.retryCount = @ + 1])
                    /\ Log(IF cfg.debug THEN {"retry"} ELSE {})
                    /\ calls' = [calls EXCEPT
                                   ![c].pc = "backoff",
                                   ![c].retries = @ + 1,
                                   ![c].waits = Append(@, RetryDelay(call.attempt)),
                                   ![c].deadline = now + RetryDelay(call.attempt)]
    /\ UNCHANGED <<now, ticks, used, cache, cfg, client, disposed, regVars>>

\* A backoff timer that passes its deadline without resolving the wait
TimerStalls(c) ==
    /\ calls[c].pc = "backoff"
    /\ now' = IF now < calls[c].deadline THEN calls[c].deadline ELSE now
    /\ ret' = NoRet
    /\ UNCHANGED <<ticks, used, cache, cfg, client, disposed, metricsData,
                   metrics, aliased, calls, logs, regVars>>

\* setTimeout(resolve, delay) fires, no sooner than its deadline: the loop's
\* next attempt invokes the operation
TimerFires(c) ==
    /\ calls[c].pc = "backoff"
    /\ now' = IF now < calls[c].deadline THEN calls[c].deadline ELSE now
    /\ ret' = NoRet
    /\ calls' = [calls EXCEPT ![c].pc = "awaitingOp",
                              ![c].attempt = @ + 1,
                              ![c].invoked = @ + 1]
    /\ UNCHANGED <<ticks, used, cache, cfg, client, disposed, metricsData,
                   metrics, aliased, logs, regVars>>

FinishLosesUpdate(c) ==
    /\ calls[c].pc = "settling"
    /\ ret' = NoRet
    /\ LET call == calls[c] IN
       IF call.pending.kind = "value"
       THEN /\ SetMetrics(UpdateResponseTime(
                   [metricsData EXCEPT !.successfulRequests = @ + 1],
                   now - call.startTime))
            /\ calls' = [calls EXCEPT ![c].pc = "resolved", ![c].result = call.pending]
            /\ UNCHANGED logs
       ELSE /\ SetMetrics(UpdateResponseTime(
                   [metricsData EXCEPT !.lastError = call.pending.value],
                   now - call.startTime))
            /\ Log({"error"})
            /\ calls' = [calls EXCEPT ![c].pc = "rejected", ![c].result = call.pending]
    /\ UNCHANGED <<now, ticks, used, cache, cfg, client, disposed, regVars>>

\* execute after the await of withRetry: the metrics, then return or rethrow
Finish(c) ==
    /\ calls[c].pc = "settling"
    /\ ret' = NoRet
    /\ LET call == calls[c] IN
       IF call.pending.kind = "value"
       THEN /\ SetMetrics(UpdateResponseTime(
                   [metricsData EXCEPT !.successfulRequests = @ + 1],
                   now - call.startTime))
            /\ calls' = [calls EXCEPT ![c].pc = "resolved", ![c].result = call.pending]
            /\ UNCHANGED logs
       ELSE /\ SetMetrics(UpdateResponseTime(
                   [metricsData EXCEPT !.failedRequests = @ + 1,
                                       !.lastError = call.pending.value],
                   now - call.startTime))
            /\ Log({"error"})
            /\ calls' = [calls EXCEPT ![c].pc = "rejected", ![c].result = call.pending]
    /\ UNCHANGED <<now, ticks, used, cache, cfg, client, disposed, regVars>>

DisposeKeepsFlag ==
    /\ ret' = NoRet
    /\ IF disposed
       THEN UNCHANGED <<cache, disposed, logs>>
       ELSE /\ cache' = CacheClear(cache)
            /\ UNCHANGED disposed
            /\ Log(IF cfg.debug THEN {"disposed"} ELSE {})
    /\ UNCHANGED <<now, ticks, used, cfg, client, metricsData, metrics, aliased,
                   calls, regVars>>

\* dispose()
Dispose ==
    /\ ret' = NoRet
    /\ IF disposed
       THEN UNCHANGED <<cache, disposed, logs>>
       ELSE /\ cache' = CacheClear(cache)
            /\ disposed' = TRUE
            /\ Log(IF cfg.debug THEN {"disposed"} ELSE {})
    /\ UNCHANGED <<now, ticks, used, cfg, client, metricsData, metrics, aliased,
                   calls, regVars>>

\* resetMetrics(): a new accumulator object; the public property keeps the old one
ResetMetrics ==
    /\ ret' = NoRet
    /\ metricsData' = FreshMetrics(now)
    /\ aliased' = FALSE
    /\ UNCHANGED <<now, ticks, used, cache, cfg, client, disposed, metrics, calls,
                   logs, regVars>>

\* clearCache()
ClearCache ==
    /\ ret' = NoRet
    /\ cache' = CacheClear(cache)
    /\ UNCHANGED <<now, ticks, used, cfg, client, disposed, metricsData, metrics,
                   aliased, calls, logs, regVars>>

Tick(d) ==
    /\ ticks < MaxTicks
    /\ now' = now + d
    /\ ticks' = ticks + 1
    /\ ret' = NoRet
    /\ UNCHANGED <<used, cache, execVars, regVars>>

Next ==
    \/ \E op \in Ops, withContext \in BOOLEAN : Execute(op, withContext)
    \/ \E c \in 1..Len(calls) : OpSettles(c)
    \/ \E c \in 1..Len(calls) : TimerFires(c)
    \/ \E c \in 1..Len(calls) : Finish(c)
    \/ Dispose
    \/ ClearCache

Spec == Init /\ [][Next]_vars

\* The same instance when the caller also resets the metrics
NextReset ==
    \/ Next
    \/ ResetMetrics

SpecReset == Init /\ [][NextReset]_vars

\* The next step of call c: its operation settles, its timer fires, or the
\* continuation of execute runs
Advance(c) ==
    /\ c <= Len(calls)
    /\ \/ OpSettles(c)
       \/ TimerFires(c)
       \/ Finish(c)

\* The operation's promises settle, timers fire and the event loop runs every
\* continuation that is ready
SpecLive == Spec /\ \A c \in 1..MaxCalls : WF_vars(Advance(c))

-----------------------------------------------------------------------------
(* SpecDispose: one instance whose cache holds entries when dispose runs.  *)
(* No method of AlchemystClientImpl writes its private LRUCache, so the    *)
(* set and get of the LRUCache it holds are driven directly here.          *)

DisposeOps == { <<Ok>> }

DisposeKeys == {"a"}

NextDispose ==
    \/ \E key \in DisposeKeys : CSet(key)
    \/ \E key \in DisposeKeys : CGet(key)
    \/ \E op \in DisposeOps, withContext \in BOOLEAN : Execute(op, withContext)
    \/ \E c \in 1..Len(calls) : OpSettles(c)
    \/ \E c \in 1..Len(calls) : Finish(c)
    \/ Dispose

SpecDispose == Init /\ [][NextDispose]_vars

-----------------------------------------------------------------------------
(* SpecClassify: the two classification functions applied to their inputs  *)

Statuses == {200, 400, 401, 403, 404, 408, 418, 429, 500, 503}

OptionalTexts == {None, Some({}), Some({"quota"})}

BodyDetails ==
    {Details(m, e, r) : m \in OptionalTexts, e \in OptionalTexts,
                        r \in {None, Some(0), Some(2)}}

\* Messages by the patterns they contain, up to two of them
Messages == {m \in SUBSET Patterns : Cardinality(m) <= 2}

\* A backend error object that reports an HTTP status
HttpError(status, message) ==
    [t |-> "Error", name |-> "APIError", message |-> message, status |-> status]

\* What a caller can hand to detectErrorFromException
Thrown ==
    {PlainError(m) : m \in Messages}
        \cup {HttpError(st, {}) : st \in Statuses}
        \cup {ThrownString(m) : m \in {{}, {"network"}}}
        \cup {ThrownUndefined, ThrownObject(TRUE), ThrownObject(FALSE)}
        \cup {DetectErrorFromResponse(st, NoDetails) : st \in Statuses}
        \cup {RateLimitError({}, Some(2))}

InitClassify ==
    /\ now = 0
    /\ ticks = 0
    /\ used = 0
    /\ cache = NewCache(ClientCacheSize, DefaultCacheTtl)
    /\ ret = NoRet
    /\ IdleExec
    /\ IdleRegistry

ClassifyResponse(status, details) ==
    /\ ret' = [op |-> "detectErrorFromResponse", status |-> status,
               details |-> details,
               value |-> DetectErrorFromResponse(status, details)]
    /\ UNCHANGED <<now, ticks, used, cache, execVars, regVars>>

ClassifyException(error) ==
    /\ ret' = [op |-> "detectErrorFromException", error |-> error,
               value |-> DetectErrorFromException(error)]
    /\ UNCHANGED <<now, ticks, used, cache, execVars, regVars>>

NextClassify ==
    \/ \E status \in Statuses, details \in BodyDetails : ClassifyResponse(status, details)
    \/ \E error \in Thrown : ClassifyException(error)

SpecClassify == InitClassify /\ [][NextClassify]_vars

-----------------------------------------------------------------------------
(* SpecRaw: execute, one request after the other, on operations that fail  *)
(* with raw values: errors reporting an HTTP status, errors whose message  *)
(* mentions a credential, and thrown values that are no Error.             *)

RawStatuses == {400, 401, 403, 404, 408, 429, 500, 503}

CredentialMessages ==
    {{"key"}, {"auth"}, {"auth", "key"}, {"network", "key"}, {"timeout", "auth"},
     {"invalid", "key"}}

RawFailures ==
    {HttpError(st, {}) : st \in RawStatuses}
        \cup {PlainError(m) : m \in CredentialMessages}
        \cup {ThrownString({}), ThrownUndefined, ThrownObject(TRUE), ThrownObject(FALSE)}

RawOps == {<<Fail(e)>> : e \in RawFailures}

\* No request is in flight
Quiet == \A c \in 1..Len(calls) : calls[c].pc \in {"resolved", "rejected"}

NextRaw ==
    \/ \E op \in RawOps : Quiet /\ Execute(op, FALSE)
    \/ \E c \in 1..Len(calls) : OpSettles(c)
    \/ \E c \in 1..Len(calls) : TimerFires(c)
    \/ \E c \in 1..Len(calls) : Finish(c)

SpecRaw == Init /\ [][NextRaw]_vars

-----------------------------------------------------------------------------
(* SpecBackoff: execute, one request after the other, under every          *)
(* maxRetries the configuration schema accepts, on operations that keep    *)
(* failing with retryable errors.                                          *)

BackoffOps == { <<Fail(ErrNetwork)>>, <<Fail(ErrNetwork), Fail(ErrRateLimit), Ok>> }

InitBackoff ==
    /\ now = 0
    /\ ticks = 0
    /\ used = 0
    /\ \E maxRetries \in 0..MaxRetriesLimit, debug \in BOOLEAN :
          cfg = [maxRetries |-> maxRetries, debug |-> debug, cacheTtl |-> DefaultCacheTtl]
    /\ cache = NewCache(ClientCacheSize, cfg.cacheTtl)
    /\ client = "sdk"
    /\ disposed = FALSE
    /\ metricsData = FreshMetrics(0)
    /\ metrics = FreshMetrics(0)
    /\ aliased = TRUE
    /\ calls = <<>>
    /\ logs = IF cfg.debug THEN {"initialized"} ELSE {}
    /\ ret = NoRet
    /\ IdleRegistry

NextBackoff ==
    \/ \E op \in BackoffOps : Quiet /\ Execute(op, FALSE)
    \/ \E c \in 1..Len(calls) : OpSettles(c)
    \/ \E c \in 1..Len(calls) : TimerFires(c)
    \/ \E c \in 1..Len(calls) : Finish(c)

SpecBackoff == InitBackoff /\ [][NextBackoff]_vars

-----------------------------------------------------------------------------
(* SpecLatency: requests executed back to back from time 0 on a fresh      *)
(* instance, each taking a scripted time. The clock moves only while a     *)
(* request runs, so the time at which a request ends is the sum of the     *)
(* elapsed times of the requests so far.                                   *)

Latencies == {10, 20, 30}

LatencyOps == { <<Ok>>, <<Fail(ErrInvalid)>>, <<Fail(ErrRateLimit), Ok>> }

\* Date.now() advances once while the operation of the running request is
\* awaited for the first time
Elapse(d) ==
    /\ calls # <<>>
    /\ calls[Len(calls)].pc = "awaitingOp"
    /\ now = calls[Len(calls)].startTime
    /\ now' = now + d
    /\ UNCHANGED <<ticks, used, cache, ret, execVars, regVars>>

NextLatency ==
    \/ \E op \in LatencyOps :
          Len(calls) < MaxRequests /\ Quiet /\ ExecuteCall(op, FALSE)
    \/ \E d \in Latencies : Elapse(d)
    \/ \E c \in 1..Len(calls) : OpSettles(c)
    \/ \E c \in 1..Len(calls) : TimerFires(c)
    \/ \E c \in 1..Len(calls) : Finish(c)

SpecLatency == Init /\ [][NextLatency]_vars

-----------------------------------------------------------------------------
(* SpecRegistry: clientRegistry, initAlchemystClient, dispose and          *)
(* disposeAllClients. A configuration here is the final, validated one.    *)
(* Strings are sequences of characters, so that substring and template     *)
(* concatenation are what the code computes.                               *)

Str(n) ==
    LET digit(d) == <<"0", "1", "2", "3", "4", "5", "6", "7", "8", "9">>[d + 1]
        RECURSIVE digits(_)
        digits(k) == IF k < 10 THEN <<digit(k)>> ELSE digits(k \div 10) \o <<digit(k % 10)>>
    IN digits(n)

\* String.prototype.substring(0, n)
Prefix(str, n) == SubSeq(str, 1, Min(n, Len(str)))

KeyA == <<"s", "k", "-", "l", "i", "v", "e", "9", "A">>
KeyB == <<"s", "k", "-", "l", "i", "v", "e", "9", "B">>
ApiKeys == {KeyA, KeyB}
Endpoints == {<<"u", ":", "e">>}
Timeouts == {5, 30}

FinalConfigs ==
    [apiKey : ApiKeys, endpoint : Endpoints, timeout : Timeouts, debug : BOOLEAN]

GetClientKeyNoTimeout(config) ==
    Prefix(config.apiKey, KeyPrefixLen) \o <<"-">> \o config.endpoint

\* getClientKey
GetClientKey(config) ==
    Prefix(config.apiKey, KeyPrefixLen) \o <<"-">> \o config.endpoint \o <<"-">>
        \o Str(config.timeout)

EmptyMap == [k \in {} |-> 0]

\* Map.set
Put(map, key, value) ==
    [k \in DOMAIN map \cup {key} |-> IF k = key THEN value ELSE map[k]]

\* getAllClients
GetAllClients == {registry[k] : k \in DOMAIN registry}

InitRegistry ==
    /\ now = 0
    /\ ticks = 0
    /\ used = 0
    /\ cache = NewCache(ClientCacheSize, DefaultCacheTtl)
    /\ ret = NoRet
    /\ IdleExec
    /\ registry = EmptyMap
    /\ instances = <<>>
    /\ epoch = 0
    /\ initLog = <<>>

\* initAlchemystClient, from the final configuration on: the registry lookup
\* and the construction; the instance returned is logged with the registry
\* epoch and with whether it was already disposed
ConstructOrReuse(config) ==
    LET clientKey == GetClientKey(config)
        reuse == /\ clientKey \in DOMAIN registry
                 /\ ~instances[registry[clientKey]].config.debug
        id == IF reuse THEN registry[clientKey] ELSE Len(instances) + 1
    IN /\ IF reuse
          THEN UNCHANGED <<registry, instances>>
          ELSE /\ instances' = Append(instances, [config |-> config, disposed |-> FALSE])
               /\ registry' = Put(registry, clientKey, id)
       /\ initLog' = Append(initLog,
              [config |-> config, instance |-> id, epoch |-> epoch,
               disposed |-> IF reuse THEN instances[id].disposed ELSE FALSE])

InitAlchemystClient(config) ==
    /\ Len(initLog) < MaxInits
    /\ ConstructOrReuse(config)
    /\ UNCHANGED <<now, ticks, used, cache, ret, execVars, epoch>>

\* dispose() on one of the instances handed out
DisposeInstance(i) ==
    /\ instances' = [instances EXCEPT ![i].disposed = TRUE]
    /\ UNCHANGED <<now, ticks, used, cache, ret, execVars, registry, epoch, initLog>>

ClearRegistryOnly ==
    /\ registry' = EmptyMap
    /\ epoch' = IF registry = EmptyMap THEN epoch ELSE epoch + 1
    /\ UNCHANGED <<now, ticks, used, cache, ret, execVars, instances, initLog>>

\* disposeAllClients
DisposeAllClients ==
    /\ instances' = [i \in 1..Len(instances) |->
                       IF i \in GetAllClients
                       THEN [instances[i] EXCEPT !.disposed = TRUE]
                       ELSE instances[i]]
    /\ registry' = EmptyMap
    /\ epoch' = IF registry = EmptyMap THEN epoch ELSE epoch + 1
    /\ UNCHANGED <<now, ticks, used, cache, ret, execVars, initLog>>

NextRegistry ==
    \/ \E config \in FinalConfigs : InitAlchemystClient(config)
    \/ \E i \in 1..Len(instances) : DisposeInstance(i)
    \/ DisposeAllClients

SpecRegistry == InitRegistry /\ [][NextRegistry]_vars

-----------------------------------------------------------------------------
(* SpecConfig: initAlchemystClient from process.env and the call-time options.
   An object is a function from its keys to optional values: a key outside the
   domain is absent, a key mapped to None holds undefined. *)

DefaultTimeout == 30000
DevelopmentTimeout == 60000
TestTimeout == 10000
ProductionMaxRetries == 5

DefaultEndpoint ==
    <<"h", "t", "t", "p", "s", ":", "/", "/", "a", "p", "i", ".", "g", "e", "t",
      "a", "l", "c", "h", "e", "m", "y", "s", "t", "a", "i", ".", "c", "o", "m">>

SDK_VERSION == "0.0.1-alpha"

EmptyObject == [k \in {} |-> None]

\* { ...a, ...b }
Spread(a, b) == b @@ a

\* obj[key], undefined for an absent key
Read(obj, key) == IF key \in DOMAIN obj THEN obj[key] ELSE None

DEFAULT_CONFIG ==
    [timeout |-> Some(DefaultTimeout),
     maxRetries |-> Some(DefaultMaxRetries),
     enableCache |-> Some(TRUE),
     cacheTtl |-> Some(DefaultCacheTtl),
     debug |-> Some(FALSE),
     headers |-> Some({"User-Agent", "Content-Type"})]

ENV_OVERRIDES ==
    [development |-> [debug |-> Some(TRUE), timeout |-> Some(DevelopmentTimeout)],
     test |-> [enableCache |-> Some(FALSE), timeout |-> Some(TestTimeout)],
     production |-> [debug |-> Some(FALSE), enableCache |-> Some(TRUE),
                     maxRetries |-> Some(ProductionMaxRetries)]]

NodeEnvironments == {"development", "test", "production"}
DebugWords == {"true", "false", "1", "0"}
SchemeChars == {"h", "t", "p", "s"}

\* z.string().url(): a scheme, then a colon
IsUrl(s) ==
    \E i \in 2..Len(s) : s[i] = ":" /\ \A j \in 1..(i - 1) : s[j] \in SchemeChars

\* Number(text) of z.coerce.number(): Some(n) for decimal digits, None for NaN
ToNumber(text) ==
    LET digits == <<"0", "1", "2", "3", "4", "5", "6", "7", "8", "9">>
        value(c) == CHOOSE d \in 0..9 : digits[d + 1] = c
        numeric == \A i \in 1..Len(text) : \E d \in 1..10 : digits[d] = text[i]
        RECURSIVE number(_)
        number(k) == IF k = 0 THEN 0 ELSE 10 * number(k - 1) + value(text[k])
    IN IF numeric THEN Some(number(Len(text))) ELSE None

\* z.coerce.number() ... .optional() on one variable: whether the variable
\* passes, given the accepted numbers, and the parsed value
Accepts(raw, accepted) ==
    raw = None \/ (ToNumber(raw[1]) # None /\ ToNumber(raw[1])[1] \in accepted)

Coerced(raw) == IF raw = None THEN None ELSE ToNumber(raw[1])

NoEnv ==
    [ALCHEMYST_API_KEY |-> None, ALCHEMYST_AI_API_KEY |-> None,
     ALCHEMYSTAI_API_KEY |-> None, ALCHEMYST_ENDPOINT |-> None,
     ALCHEMYST_TIMEOUT |-> None, ALCHEMYST_MAX_RETRIES |-> None,
     ALCHEMYST_CACHE_TTL |-> None, ALCHEMYST_DEBUG |-> None, NODE_ENV |-> None]

\* parseEnv: envSchema.parse(process.env), {} when any variable is rejected
ParseEnv(env) ==
    LET ok == /\ env.ALCHEMYST_ENDPOINT = None \/ IsUrl(env.ALCHEMYST_ENDPOINT[1])
              /\ Accepts(env.ALCHEMYST_TIMEOUT, Nat \ {0})
              /\ Accepts(env.ALCHEMYST_MAX_RETRIES, 0..MaxRetriesLimit)
              /\ Accepts(env.ALCHEMYST_CACHE_TTL, Nat \ {0})
              /\ env.ALCHEMYST_DEBUG = None \/ env.ALCHEMYST_DEBUG[1] \in DebugWords
              /\ env.NODE_ENV = None \/ env.NODE_ENV[1] \in NodeEnvironments
    IN IF ok
       THEN [env EXCEPT !.ALCHEMYST_TIMEOUT = Coerced(env.ALCHEMYST_TIMEOUT),
                        !.ALCHEMYST_MAX_RETRIES = Coerced(env.ALCHEMYST_MAX_RETRIES),
                        !.ALCHEMYST_CACHE_TTL = Coerced(env.ALCHEMYST_CACHE_TTL)]
       ELSE NoEnv

\* getEnvironment
GetEnvironment(env) ==
    IF env.NODE_ENV # None /\ env.NODE_ENV[1] \in NodeEnvironments
    THEN env.NODE_ENV[1]
    ELSE "development"

\* extractApiKey: the first variable that is set and not empty
ExtractApiKey(env) ==
    LET truthy(v) == v # None /\ v[1] # <<>>
    IN IF truthy(env.ALCHEMYST_API_KEY) THEN env.ALCHEMYST_API_KEY[1]
       ELSE IF truthy(env.ALCHEMYST_AI_API_KEY) THEN env.ALCHEMYST_AI_API_KEY[1]
       ELSE IF truthy(env.ALCHEMYSTAI_API_KEY) THEN env.ALCHEMYSTAI_API_KEY[1]
       ELSE <<>>

\* parseBoolean
ParseBoolean(value) ==
    IF value = None \/ value[1] = "" THEN None
    ELSE Some(value[1] = "true" \/ value[1] = "1")

\* configSchema.parse: undefined settings take the schema's defaults, unknown
\* keys are dropped
ConfigSchemaParse(obj) ==
    LET apiKey == Read(obj, "apiKey")
        orDefault(key, default) ==
            IF Read(obj, key) = None THEN default ELSE Read(obj, key)[1]
        data == [apiKey |-> IF apiKey = None THEN <<>> ELSE apiKey[1],
                 endpoint |-> orDefault("endpoint", DefaultEndpoint),
                 timeout |-> orDefault("timeout", DefaultTimeout),
                 maxRetries |-> orDefault("maxRetries", DefaultMaxRetries),
                 enableCache |-> orDefault("enableCache", TRUE),
                 cacheTtl |-> orDefault("cacheTtl", DefaultCacheTtl),
                 debug |-> orDefault("debug", FALSE),
                 headers |-> orDefault("headers", {})]
        success == /\ apiKey # None
                   /\ Len(data.apiKey) >= 1
                   /\ IsUrl(data.endpoint)
                   /\ data.timeout > 0
                   /\ data.maxRetries \in 0..MaxRetriesLimit
                   /\ data.cacheTtl > 0
    IN IF success THEN [success |-> TRUE, data |-> data] ELSE [success |-> FALSE]

\* { ...validated, environment, version }
SdkConfig(validated, environment) ==
    [apiKey |-> validated.apiKey, endpoint |-> validated.endpoint,
     timeout |-> validated.timeout, maxRetries |-> validated.maxRetries,
     enableCache |-> validated.enableCache, cacheTtl |-> validated.cacheTtl,
     debug |-> validated.debug, headers |-> validated.headers,
     environment |-> environment, version |-> SDK_VERSION]

\* a configuration read back as an object: every key present and defined
AsObject(config) == [k \in DOMAIN config |-> Some(config[k])]

\* loadConfig
LoadConfig(env) ==
    LET parsed == ParseEnv(env)
        environment == GetEnvironment(env)
        apiKey == ExtractApiKey(parsed)
        baseConfig == Spread(DEFAULT_CONFIG,
                         [apiKey |-> Some(apiKey),
                          endpoint |-> parsed.ALCHEMYST_ENDPOINT,
                          timeout |-> parsed.ALCHEMYST_TIMEOUT,
                          maxRetries |-> parsed.ALCHEMYST_MAX_RETRIES,
                          cacheTtl |-> parsed.ALCHEMYST_CACHE_TTL,
                          debug |-> ParseBoolean(parsed.ALCHEMYST_DEBUG)])
        finalConfig == Spread(baseConfig, ENV_OVERRIDES[environment])
        validated == ConfigSchemaParse(finalConfig)
    IN IF apiKey = <<>>
       THEN [valid |-> FALSE, errors |-> "Missing Alchemyst API key"]
       ELSE IF validated.success
       THEN [valid |-> TRUE, config |-> SdkConfig(validated.data, environment)]
       ELSE [valid |-> FALSE, errors |-> "Configuration error"]

\* mergeConfig, called with a loaded configuration
MergeConfig(userOptions, loadedConfig) ==
    LET base == AsObject(loadedConfig)
        userConfig == IF userOptions.config = None THEN EmptyObject
                      ELSE userOptions.config[1]
        merged == Spread(Spread(DEFAULT_CONFIG, base), userConfig)
    IN IF userOptions.apiKey # <<>>
       THEN Spread(merged, [apiKey |-> Some(userOptions.apiKey)])
       ELSE merged

\* validateConfig
ValidateConfig(config, env) ==
    LET validated == ConfigSchemaParse(config)
    IN IF validated.success
       THEN [valid |-> TRUE, config |-> SdkConfig(validated.data, GetEnvironment(env))]
       ELSE [valid |-> FALSE, errors |-> "Invalid configuration"]

\* initAlchemystClient up to the final configuration; options is either a
\* string, [string |-> apiKey], or an AlchemystToolOptions object
FinalConfig(env, options) ==
    LET userOptions == IF "string" \in DOMAIN options
                       THEN [apiKey |-> options.string, config |-> None]
                       ELSE options
        configResult == LoadConfig(env)
        validationResult == ValidateConfig(MergeConfig(userOptions, configResult.config), env)
    IN IF ~configResult.valid
       THEN Throws([name |-> "AuthenticationError", message |-> "Configuration error"])
       ELSE IF ~validationResult.valid
       THEN Throws([name |-> "AuthenticationError", message |-> "Invalid configuration"])
       ELSE Returns(validationResult.config)

EnvEndpoint == <<"h", "t", "t", "p", "s", ":", "/", "/", "e">>
OptionEndpoint == <<"h", "t", "t", "p", "s", ":", "/", "/", "o">>

\* the API-key variables: none set, the first set, the first empty and the second set
EnvKeys == { <<None, None>>, <<Some(KeyA), None>>, <<Some(<<>>), Some(KeyB)>> }

NodeEnvValues ==
    {None, Some("development"), Some("test"), Some("production"), Some("staging")}

\* at most one ALCHEMYST_* setting in the environment; a timeout of "0" is one
\* that envSchema rejects
EnvSettings ==
    { NoEnv,
      [NoEnv EXCEPT !.ALCHEMYST_ENDPOINT = Some(EnvEndpoint)],
      [NoEnv EXCEPT !.ALCHEMYST_TIMEOUT = Some(<<"5", "0", "0", "0">>)],
      [NoEnv EXCEPT !.ALCHEMYST_TIMEOUT = Some(<<"0">>)],
      [NoEnv EXCEPT !.ALCHEMYST_MAX_RETRIES = Some(<<"7">>)],
      [NoEnv EXCEPT !.ALCHEMYST_CACHE_TTL = Some(<<"6", "0">>)],
      [NoEnv EXCEPT !.ALCHEMYST_DEBUG = Some("true")],
      [NoEnv EXCEPT !.ALCHEMYST_DEBUG = Some("0")] }

Environments ==
    { [s EXCEPT !.ALCHEMYST_API_KEY = k[1], !.ALCHEMYST_AI_API_KEY = k[2],
                !.NODE_ENV = n] :
        s \in EnvSettings, k \in EnvKeys, n \in NodeEnvValues }

\* options.config with at most one setting
UserConfigs ==
    { EmptyObject,
      "endpoint" :> Some(OptionEndpoint),
      "timeout" :> Some(7000),
      "maxRetries" :> Some(1),
      "cacheTtl" :> Some(120),
      "debug" :> Some(FALSE) }

CallOptions ==
    { [string |-> KeyB] }
    \cup { [apiKey |-> k, config |-> c] :
             k \in {<<>>, KeyB}, c \in {None} \cup {Some(u) : u \in UserConfigs} }

InitConfig == InitRegistry

\* initAlchemystClient(options) under the environment env; used counts the calls
InitFromOptions(env, options) ==
    /\ used < MaxConfigured
    /\ used' = used + 1
    /\ LET outcome == FinalConfig(env, options)
       IN /\ ret' = [op |-> "initAlchemystClient", env |-> env,
                     options |-> options, outcome |-> outcome]
          /\ IF outcome.ok
             THEN ConstructOrReuse(outcome.value)
             ELSE UNCHANGED <<registry, instances, initLog>>
    /\ UNCHANGED <<now, ticks, cache, execVars, epoch>>

NextConfig ==
    \E env \in Environments, options \in CallOptions : InitFromOptions(env, options)

SpecConfig == InitConfig /\ [][NextConfig]_vars

-----------------------------------------------------------------------------
(* SpecTools: the tool sets built by alchemystTools, in src/tool.ts and in
   src/tools/context.tools.ts, and the execute function of each tool *)

ToolModules == {"tool.ts", "tools/context.tools.ts"}
ContextToolNames == {"add_to_context", "search_context", "delete_context"}
MemoryToolNames == {"add_to_memory", "delete_memory"}

ToolOptions ==
    [groupName : SUBSET {"context", "memory"}, withMemory : BOOLEAN, withContext : BOOLEAN]

\* alchemystTools: the names of the tools returned. tool.ts lets a non-empty
\* groupName override the flags and falls back to the context tools;
\* context.tools.ts selects by the flags alone
AlchemystTools(module, options) ==
    IF module = "tool.ts"
    THEN LET byGroup == options.groupName # {}
             includeMemory == IF byGroup THEN "memory" \in options.groupName
                              ELSE options.withMemory
             includeContext == \/ IF byGroup THEN "context" \in options.groupName
                                  ELSE options.withContext
                               \/ ~includeMemory
         IN (IF includeContext THEN ContextToolNames ELSE {})
               \cup (IF includeMemory THEN MemoryToolNames ELSE {})
    ELSE (IF options.withContext THEN ContextToolNames ELSE {})
            \cup (IF options.withMemory THEN MemoryToolNames ELSE {})

\* the identifiers handed to delete_memory
MemoryParams == [memoryId : {None, Some("m1")}, sessionId : {None, Some("m1"), Some("m2")}]
NoParams == [memoryId |-> Some("m1"), sessionId |-> None]
ParamsOf(tool) == IF tool = "delete_memory" THEN MemoryParams ELSE {NoParams}

\* what the backend call settles with: a response with its number of contexts
\* (None when it carries none), or a thrown value
Resolved(contexts) == [ok |-> TRUE, contexts |-> contexts]
ToolFailures ==
    {PlainError({}), PlainError({"network"}), HttpError(500, {}),
     RateLimitError({}, Some(2)), ThrownString({}), ThrownString({"network"}),
     ThrownUndefined, ThrownObject(TRUE), ThrownObject(FALSE)}
BackendOutcomes ==
    {Resolved(c) : c \in {None, Some(0), Some(1)}} \cup {Fail(e) : e \in ToolFailures}

\* err instanceof Error
IsError(err) == err.t \in {"Error", "AlchemystAIError"}

\* err instanceof Error ? err.message : String(err)
ErrorText(err) == IF IsError(err) THEN Returns(err.message) ELSE StringOf(err)

\* the catch block of a tool: the failure object under the module's field
\* name, or the TypeError of String(err)
Caught(module, tool, err) ==
    LET text == ErrorText(err)
        asError == module = "tool.ts"
    IN IF ~text.ok THEN text
       ELSE IF asError THEN Returns([success |-> FALSE, error |-> text.value])
       ELSE Returns([success |-> FALSE, message |-> text.value])

\* the object returned after the backend call resolved
Succeeded(tool, id, response) ==
    CASE tool = "add_to_memory" ->
            [success |-> TRUE, message |-> <<"Successfully added item(s) to memory">>]
      [] tool = "delete_memory" ->
            [success |-> TRUE, message |-> <<"Successfully deleted memory with ID", id>>]
      [] tool = "add_to_context" ->
            [success |-> TRUE, message |-> <<"Successfully added document(s) to context">>]
      [] tool = "search_context" ->
            LET contexts == IF response.contexts = None THEN 0 ELSE response.contexts[1]
            IN [success |-> TRUE, message |-> <<"Found matching context(s)", contexts>>,
                data |-> contexts]
      [] tool = "delete_context" ->
            [success |-> TRUE, message |-> <<"Successfully deleted context">>]

\* execute of one tool: whether the backend was called, and how the promise
\* settles. Only delete_memory of context.tools.ts answers without a call
ToolExecute(module, tool, params, backend) ==
    LET checked == module = "tools/context.tools.ts" /\ tool = "delete_memory"
        mismatch == /\ params.memoryId # None
                    /\ params.sessionId # None
                    /\ params.memoryId # params.sessionId
        resolvedMemoryId == IF ~checked \/ params.memoryId # None THEN params.memoryId
                            ELSE params.sessionId
    IN IF checked /\ mismatch
       THEN [called |-> FALSE,
             outcome |-> Returns([success |-> FALSE, message |-> "memoryId and sessionId do not match"])]
       ELSE IF checked /\ resolvedMemoryId = None
       THEN [called |-> FALSE,
             outcome |-> Returns([success |-> FALSE, message |-> "Either memoryId or sessionId is required"])]
       ELSE IF backend.ok
       THEN [called |-> TRUE, outcome |-> Returns(Succeeded(tool, resolvedMemoryId, backend))]
       ELSE [called |-> TRUE, outcome |-> Caught(module, tool, backend.error)]

InitTools == InitClassify

\* alchemystTools(options) of one module, then execute of one of its tools
\* with the backend settling as given; used counts the calls
UseTool(module, options, tool, params, backend) ==
    /\ used < MaxToolCalls
    /\ used' = used + 1
    /\ tool \in AlchemystTools(module, options)
    /\ LET r == ToolExecute(module, tool, params, backend)
       IN ret' = [op |-> "execute", module |-> module, options |-> options,
                  tool |-> tool, params |-> params, backend |-> backend,
                  called |-> r.called, outcome |-> r.outcome]
    /\ UNCHANGED <<now, ticks, cache, execVars, regVars>>

NextTools ==
    \E module \in ToolModules, options \in ToolOptions,
       tool \in ContextToolNames \cup MemoryToolNames, backend \in BackendOutcomes :
        \E params \in ParamsOf(tool) : UseTool(module, options, tool, params, backend)

SpecTools == InitTools /\ [][NextTools]_vars

-----------------------------------------------------------------------------
(* SpecMemory: the function returned by withAlchemyst, in src/withAlchemyst.ts
   (generateTextWithMemory) and in src/middleware.ts (wrappedFn) *)

MemoryModules == {"withAlchemyst.ts", "middleware.ts"}

\* the option each module reads: saveMemories in withAlchemyst.ts, withMemory
\* in middleware.ts
WrapOptions == [memory : BOOLEAN]

\* withAlchemyst.ts takes a userId and a conversationId, both required;
\* middleware.ts a userId and a sessionId, both optional
WrapParams(module) ==
    IF module = "withAlchemyst.ts"
    THEN [prompt : {"", "hello"}, userId : {Some("u1")}, sessionId : {Some("s1")}]
    ELSE [prompt : {"", "hello"}, userId : {None, Some("u1")},
          sessionId : {None, Some("s1")}]

SearchOutcomes ==
    {Resolved(c) : c \in {None, Some(0), Some(1)}}
        \cup {Fail(PlainError({"network"})), Fail(HttpError(401, {}))}

TextResult(text) == [kind |-> "text", text |-> text]
StreamResult == [kind |-> "stream", wrapped |-> FALSE, storeFails |-> FALSE]

GenerateOutcomes ==
    {[ok |-> TRUE, result |-> r] : r \in {TextResult(""), TextResult("answer"), StreamResult}}
        \cup {Fail(PlainError({"timeout"}))}

StoreOutcomes == {Ok, Fail(HttpError(401, {}))}

\* generateTextWithMemory of withAlchemyst.ts: the search and the store are
\* each inside a try/catch of their own
GenerateTextWithMemory(options, params, search, generate, store) ==
    LET injected == search.ok /\ search.contexts # None /\ search.contexts[1] > 0
    IN [searched |-> TRUE,
        injected |-> injected,
        generated |-> 1,
        stored |-> generate.ok /\ options.memory,
        outcome |-> IF generate.ok THEN Returns(generate.result)
                    ELSE Throws(generate.error)]

\* wrappedFn of middleware.ts: the search is inside a try/catch, the store of
\* a text result is awaited outside of any, and the store of a streamed result
\* is left to the wrapped stream, which fails with it
WrappedFn(options, params, search, generate, store) ==
    LET identified == params.userId # None \/ params.sessionId # None
        searched == options.memory /\ identified /\ params.prompt # ""
        injected == /\ searched
                    /\ search.ok
                    /\ search.contexts # None
                    /\ search.contexts[1] > 0
        isText == generate.ok /\ generate.result.kind = "text"
        stored == identified /\ isText /\ generate.result.text # ""
    IN [searched |-> searched,
        injected |-> injected,
        generated |-> 1,
        stored |-> stored,
        outcome |->
            IF ~generate.ok THEN Throws(generate.error)
            ELSE IF ~identified THEN Returns(generate.result)
            ELSE IF isText
            THEN IF stored /\ ~store.ok THEN Throws(store.error)
                 ELSE Returns(generate.result)
            ELSE Returns([generate.result EXCEPT !.wrapped = TRUE,
                                                 !.storeFails = ~store.ok])]

InitMemory == InitClassify

\* one call of the wrapped function, with the memory backend and the
\* generation function settling as given; used counts the calls
CallWrapped(module, options, params, search, generate, store) ==
    /\ used < MaxGenerations
    /\ used' = used + 1
    /\ LET r == IF module = "withAlchemyst.ts"
                THEN GenerateTextWithMemory(options, params, search, generate, store)
                ELSE WrappedFn(options, params, search, generate, store)
       IN ret' = [op |-> "generate", module |-> module, options |-> options,
                  params |-> params, search |-> search, generate |-> generate,
                  store |-> store, searched |-> r.searched, injected |-> r.injected,
                  generated |-> r.generated, stored |-> r.stored,
                  outcome |-> r.outcome]
    /\ UNCHANGED <<now, ticks, cache, execVars, regVars>>

NextMemory ==
    \E module \in MemoryModules, options \in WrapOptions, search \in SearchOutcomes,
       generate \in GenerateOutcomes, store \in StoreOutcomes :
        \E params \in WrapParams(module) :
            CallWrapped(module, options, params, search, generate, store)

SpecMemory == InitMemory /\ [][NextMemory]_vars




-----------------------------------------------------------------------------
(* Claims about the cache, checked under SpecCache *)

EntryOf(c, key) == c.entries[IndexOf(c.entries, key)]

NoneExpired(c, t) == \A i \in 1..Len(c.entries) : t - c.entries[i].timestamp <= c.ttl

\* The step is a call set(key) / get(key)
IsSet(key) == ret'.op = "set" /\ ret'.key = key /\ used' = used + 1
IsGet(key) == ret'.op = "get" /\ ret'.key = key /\ used' = used + 1

\* C5: for every capacity maxSize >= 0 and every key, the empty string included,
\* the cache holds at most maxSize entries after each set.
C5_SizeWithinCapacity == ret.op = "set" => Len(cache.entries) <= cache.maxSize

\* C6: with capacity N >= 1 and nothing expired, the (N+1)-th insertion of a
\* distinct key into a cache filled from empty by N insertions removes exactly
\* the first-inserted key, keeps the other N - 1 old keys with their values next
\* to the new one, and adds exactly 1 to the eviction counter.
C6_EvictsFirstInserted ==
    [][\A key \in Keys :
         (/\ IsSet(key)
          /\ cache.maxSize >= 1
          /\ Len(cache.entries) = cache.maxSize
          /\ used = cache.maxSize
          /\ key \notin KeysOf(cache.entries)
          /\ NoneExpired(cache, now))
         => (/\ KeysOf(cache'.entries) =
                  (KeysOf(cache.entries) \ {cache.entries[1].key}) \cup {key}
             /\ \A k \in KeysOf(cache.entries) \ {cache.entries[1].key} :
                  EntryOf(cache', k).value = EntryOf(cache, k).value
             /\ cache'.stats.evictions = cache.stats.evictions + 1)]_vars

\* C7: a get of a stored key at age ttl - 1 returns its value and counts a hit;
\* a get of a stored key at age ttl + 1 returns absent, deletes the entry and
\* counts a miss, not a hit.
C7_TtlWindow ==
    [][\A key \in Keys :
         (IsGet(key) /\ key \in KeysOf(cache.entries))
         => LET e == EntryOf(cache, key)
                age == now - e.timestamp
            IN /\ age = cache.ttl - 1 =>
                    /\ ret'.value = e.value
                    /\ key \in KeysOf(cache'.entries)
                    /\ cache'.stats.hits = cache.stats.hits + 1
                    /\ cache'.stats.misses = cache.stats.misses
               /\ age = cache.ttl + 1 =>
                    /\ ret'.value = NoValue
                    /\ key \notin KeysOf(cache'.entries)
                    /\ Len(cache'.entries) = Len(cache.entries) - 1
                    /\ cache'.stats.misses = cache.stats.misses + 1
                    /\ cache'.stats.hits = cache.stats.hits]_vars

\* A key set at time 0 was read at ttl - 1 (a hit) and has just been read again
\* at ttl + 1: absent, deleted, a miss.
C7_Witness ==
    /\ ret.op = "get"
    /\ ret.value = NoValue
    /\ cache.ttl > 0
    /\ now = cache.ttl + 1
    /\ used = 3
    /\ cache.entries = <<>>
    /\ cache.stats = [hits |-> 1, misses |-> 1, evictions |-> 0]


-----------------------------------------------------------------------------
(* Claims about the executor, checked under Spec *)

Last(s) == s[Len(s)]

Admitted(call) == call.result # Settled("error", DisposedError)

HasSettled(call) == call.pc \in {"resolved", "rejected"}

AlwaysFails(op, retryable) ==
    \A i \in 1..Len(op) :
        /\ ~op[i].ok
        /\ DetectErrorFromException(op[i].error).retryable = retryable

\* C1: once the instance is disposed, a call of execute or executeWithContext
\* is rejected with the plain "disposed" error without invoking the operation,
\* and it changes neither the metrics, nor the cache, nor any call in flight.
C1_DisposedFence ==
    [][(disposed /\ Len(calls') = Len(calls) + 1) =>
          /\ Last(calls').pc = "rejected"
          /\ Last(calls').result = Settled("error", DisposedError)
          /\ Last(calls').invoked = 0
          /\ SubSeq(calls', 1, Len(calls)) = calls
          /\ metricsData' = metricsData
          /\ metrics' = metrics
          /\ cache' = cache]_vars

C1_Witness ==
    /\ disposed
    /\ Len(calls) = 2
    /\ calls[1].pc = "resolved"
    /\ calls[2].pc = "rejected"
    /\ calls[2].result = Settled("error", DisposedError)
    /\ calls[2].invoked = 0
    /\ metricsData.totalRequests = 1
    /\ metricsData.successfulRequests = 1

\* C2: an admitted operation that always fails with a retryable error is
\* invoked exactly maxRetries times, is then rejected with the classified
\* error of its failure, and adds maxRetries - 1 to retryCount.
C2_RetryExhaustion ==
    \A c \in 1..Len(calls) :
        (HasSettled(calls[c]) /\ Admitted(calls[c]) /\ AlwaysFails(calls[c].op, TRUE)) =>
            /\ calls[c].pc = "rejected"
            /\ calls[c].invoked = cfg.maxRetries
            /\ calls[c].retries = cfg.maxRetries - 1
            /\ IsAIError(calls[c].result.value)
            /\ calls[c].result.value = DetectErrorFromException(calls[c].op[1].error)

\* C3: an admitted operation whose first failure is classified as not
\* retryable is invoked exactly once, waits for no backoff and is rejected
\* with that classified error.
C3_NonRetryableOnce ==
    \A c \in 1..Len(calls) :
        (HasSettled(calls[c]) /\ Admitted(calls[c]) /\ AlwaysFails(calls[c].op, FALSE)) =>
            /\ calls[c].pc = "rejected"
            /\ calls[c].invoked = 1
            /\ calls[c].retries = 0
            /\ calls[c].waits = <<>>
            /\ calls[c].result.value = DetectErrorFromException(calls[c].op[1].error)

\* C4: when an admitted call is rejected, the value it is rejected with is an
\* AlchemystAIError, the same value is stored as metrics lastError and
\* failedRequests grows by one.
C4_ClassifiedRejection ==
    [][\A c \in 1..Len(calls) :
          (calls[c].pc = "settling" /\ calls'[c].pc = "rejected") =>
              /\ IsAIError(calls'[c].result.value)
              /\ metricsData'.lastError = calls'[c].result.value
              /\ metricsData'.failedRequests = metricsData.failedRequests + 1]_vars

\* C10: healthCheck answers true exactly when the instance is not disposed and
\* holds a connection object.
C10_HealthCheckUsable ==
    HealthCheck(client) = (~disposed /\ client # Undefined)

CountCalls(P(_)) == Cardinality({c \in 1..Len(calls) : P(calls[c])})

IsResolved(call) == call.pc = "resolved"

IsFailed(call) == call.pc = "rejected" /\ Admitted(call)

\* C21: for every interleaving of overlapping calls, totalRequests is the
\* number of admitted calls, whatever their retries, successfulRequests the
\* number of calls that resolved and failedRequests the number of admitted
\* calls that rejected, so that a call that has settled is always counted
\* in what getMetrics returns and, with no call in flight, totalRequests =
\* successfulRequests + failedRequests.
C21_NoLostUpdate ==
    LET m == GetMetrics(metricsData, cache, now)
    IN /\ m.totalRequests = CountCalls(Admitted)
       /\ m.successfulRequests = CountCalls(IsResolved)
       /\ m.failedRequests = CountCalls(IsFailed)
       /\ Quiet => m.totalRequests = m.successfulRequests + m.failedRequests
       /\ metrics.totalRequests = m.totalRequests
       /\ metrics.successfulRequests = m.successfulRequests
       /\ metrics.failedRequests = m.failedRequests

\* Two calls began at time 0; the first was retried once and resolved after
\* its backoff, the second failed
C21_Witness ==
    /\ Len(calls) = 2
    /\ calls[1].pc = "resolved"
    /\ calls[1].retries = 1
    /\ calls[2].pc = "rejected"
    /\ calls[2].startTime = 0
    /\ calls[2].invoked >= 1
    /\ metricsData.totalRequests = 2
    /\ metricsData.successfulRequests = 1
    /\ metricsData.failedRequests = 1
    /\ metricsData.retryCount = 1

\* What a caller or the backend can tell apart: everything but the log
Observable == <<calls, metricsData, metrics, aliased, cache, disposed, cfg, client, now>>

\* C22: from every state, disposed or not, in debug mode or not, and for every
\* operation, a call of executeWithContext leaves the calls, the metrics and
\* the cache exactly as a call of execute would, and the other way round;
\* what follows the call reads none of what the two differ in, the log.
C22_ContextEquivalent ==
    [][\A op \in Ops :
          /\ ExecuteCall(op, TRUE) =>
                \E after \in {Observable'} :
                    ENABLED (ExecuteCall(op, FALSE) /\ Observable' = after)
          /\ ExecuteCall(op, FALSE) =>
                \E after \in {Observable'} :
                    ENABLED (ExecuteCall(op, TRUE) /\ Observable' = after)]_vars

\* In debug mode a call with context was logged; one call resolved after a
\* retry and another was turned away by the disposed instance
C22_Witness ==
    /\ cfg.debug
    /\ "context" \in logs
    /\ disposed
    /\ Len(calls) = 2
    /\ calls[1].pc = "resolved"
    /\ calls[1].retries = 1
    /\ calls[2].result = Settled("error", DisposedError)

\* C18: the wait after a failed attempt is the retryAfter of the error when it
\* is a rate limit error that carries one, and the exponential delay of that
\* attempt otherwise.
C18_RetryAfterOverrides ==
    \A c \in 1..Len(calls) : \A k \in 1..Len(calls[c].waits) :
        calls[c].waits[k] =
            GetRetryDelay(DetectErrorFromException(OutcomeAt(calls[c].op, k).error), k)

-----------------------------------------------------------------------------
(* Claims about the registry, checked under SpecRegistry *)

SameIdentity(a, b) ==
    /\ a.apiKey = b.apiKey
    /\ a.endpoint = b.endpoint
    /\ a.timeout = b.timeout

\* C8 as stated: any two initAlchemystClient calls with the same apiKey,
\* endpoint and timeout and with debug off return the same instance.
C8_AnyTwoCalls ==
    \A i \in 1..Len(initLog) : \A j \in 1..Len(initLog) :
        (/\ SameIdentity(initLog[i].config, initLog[j].config)
         /\ ~initLog[i].config.debug
         /\ ~initLog[j].config.debug) => initLog[i].instance = initLog[j].instance

\* C8, amended: two initAlchemystClient calls with the same apiKey, endpoint
\* and timeout and with debug off, with no disposeAllClients that cleared a
\* registered client between them, return the same instance; two calls that
\* differ only in timeout return different instances.
C8_RegistryReuse ==
    \A i \in 1..Len(initLog) : \A j \in 1..Len(initLog) :
        LET a == initLog[i]
            b == initLog[j]
        IN /\ (/\ SameIdentity(a.config, b.config)
               /\ ~a.config.debug
               /\ ~b.config.debug
               /\ a.epoch = b.epoch) => a.instance = b.instance
           /\ (/\ a.config.apiKey = b.config.apiKey
               /\ a.config.endpoint = b.config.endpoint
               /\ a.config.debug = b.config.debug
               /\ a.config.timeout # b.config.timeout) => a.instance # b.instance

C8_Witness ==
    /\ Len(initLog) = 3
    /\ epoch = 0
    /\ ~initLog[1].config.debug
    /\ initLog[2].config = initLog[1].config
    /\ initLog[2].instance = initLog[1].instance
    /\ initLog[3].config = [initLog[1].config EXCEPT !.timeout = 30]
    /\ initLog[1].config.timeout = 5
    /\ initLog[3].instance # initLog[1].instance
    /\ Len(instances) = 2

\* C9: a disposed instance is no longer registered, and initAlchemystClient
\* never returns an instance that is already disposed.
C9_DisposeUnregisters ==
    /\ \A i \in GetAllClients : ~instances[i].disposed
    /\ \A n \in 1..Len(initLog) : ~initLog[n].disposed

\* C12: disposeAllClients disposes every instance registered when it is
\* called and leaves the registry empty, so that getAllClients returns no
\* instance; an initAlchemystClient call made while the registry is empty
\* constructs a new instance, which is not disposed.
C12_DisposeAllEmpties ==
    [][/\ DisposeAllClients =>
            /\ \A i \in GetAllClients : instances'[i].disposed
            /\ registry' = EmptyMap
            /\ GetAllClients' = {}
            /\ Len(instances') = Len(instances)
       /\ (registry = EmptyMap /\ Len(initLog') = Len(initLog) + 1) =>
            /\ Len(instances') = Len(instances) + 1
            /\ Last(initLog').instance = Len(instances')
            /\ ~Last(initLog').disposed
            /\ ~Last(instances').disposed
            /\ GetAllClients' = {Len(instances')}]_vars

\* Two instances were registered and disposed together, and the same
\* configuration then got a new instance
C12_Witness ==
    /\ Len(initLog) = 3
    /\ epoch = 1
    /\ initLog[1].instance = 1
    /\ initLog[2].instance = 2
    /\ initLog[3].instance = 3
    /\ initLog[3].config = initLog[1].config
    /\ instances[1].disposed
    /\ instances[2].disposed
    /\ ~instances[3].disposed
    /\ GetAllClients = {3}

-----------------------------------------------------------------------------
(* Claims about dispose, checked under SpecDispose *)

EmptyStats == [hits |-> 0, misses |-> 0, evictions |-> 0]

\* C11: dispose empties the cache, resets the cache statistics and sets the
\* disposed flag without touching the metrics, and a dispose of an instance
\* that is already disposed changes nothing at all.
C11_DisposeIdempotent ==
    [][Dispose =>
          /\ disposed'
          /\ metricsData' = metricsData
          /\ metrics' = metrics
          /\ calls' = calls
          /\ IF disposed
             THEN cache' = cache /\ logs' = logs
             ELSE cache'.entries = <<>> /\ cache'.stats = EmptyStats]_vars

\* A disposed instance whose cache had been written and read and which had
\* served a request
C11_Witness ==
    /\ disposed
    /\ used >= 2
    /\ cache.entries = <<>>
    /\ cache.stats = EmptyStats
    /\ metricsData.totalRequests >= 1
    /\ ENABLED Dispose

-----------------------------------------------------------------------------
(* Claims about classification, checked under SpecClassify *)

Classified == ret.op \in {"detectErrorFromResponse", "detectErrorFromException"}

RetryableKinds == {"TIMEOUT", "RATE_LIMIT", "NETWORK", "INTERNAL"}

FinalKinds == {"AUTHENTICATION", "AUTHORIZATION", "VALIDATION", "NOT_FOUND", "UNKNOWN"}

\* C13: every error that classification produces has a kind among the nine,
\* and it is retryable exactly when its kind is TIMEOUT, RATE_LIMIT, NETWORK
\* or INTERNAL.
C13_RetryableByKind ==
    (Classified /\ IsAIError(ret.value)) =>
        /\ ret.value.code \in RetryableKinds \cup FinalKinds
        /\ ret.value.retryable = (ret.value.code \in RetryableKinds)

\* C16: an error that is already classified is returned by
\* detectErrorFromException as it is, and what either classification function
\* returns is returned unchanged when it is classified again, as logError and
\* handleError do.
C16_ClassifyIdempotent ==
    /\ ret.op = "detectErrorFromException" =>
          /\ IsAIError(ret.error) => ret.value = ret.error
          /\ IsAIError(ret.value) => DetectErrorFromException(ret.value) = ret.value
    /\ ret.op = "detectErrorFromResponse" =>
          DetectErrorFromException(ret.value) = ret.value

\* A rate limit error with its retryAfter detail went through classification
C16_Witness ==
    /\ ret.op = "detectErrorFromException"
    /\ IsAIError(ret.error)
    /\ ret.error.code = "RATE_LIMIT"
    /\ ret.error.retryAfter = Some(2)
    /\ ret.value = ret.error

-----------------------------------------------------------------------------
(* Claims about raw failures in execute, checked under SpecRaw *)

Reports(e, statuses) == "status" \in DOMAIN e /\ e.status \in statuses

KindOfStatus(st) ==
    CASE st = 408 -> "TIMEOUT"
      [] st = 429 -> "RATE_LIMIT"
      [] OTHER -> "INTERNAL"

\* C14: with at least one attempt configured, an operation failing with a raw
\* error that reports status 408, 429 or >= 500 is rejected as TIMEOUT,
\* RATE_LIMIT or INTERNAL, retryable, after being retried for as long as
\* attempts remained; one reporting 400, 401, 403 or 404 is rejected with an
\* error that is not retryable after a single attempt.
C14_StatusDrivesRetry ==
    \A c \in 1..Len(calls) :
        LET call == calls[c]
            e == call.op[1].error
        IN (cfg.maxRetries >= 1 /\ call.pc = "rejected" /\ Admitted(call)) =>
             /\ (Reports(e, {408, 429}) \/ ("status" \in DOMAIN e /\ e.status >= 500)) =>
                   /\ call.result.value.code = KindOfStatus(e.status)
                   /\ call.result.value.retryable
                   /\ call.invoked = cfg.maxRetries
             /\ Reports(e, {400, 401, 403, 404}) =>
                   /\ ~call.result.value.retryable
                   /\ call.invoked = 1

\* C15: with at least one attempt configured, an operation failing with a raw
\* Error whose message contains auth or key is rejected as AUTHENTICATION,
\* not retryable, after exactly one attempt.
C15_CredentialIsFinal ==
    \A c \in 1..Len(calls) :
        LET call == calls[c]
            e == call.op[1].error
        IN (/\ cfg.maxRetries >= 1
            /\ call.pc = "rejected"
            /\ Admitted(call)
            /\ e.t = "Error"
            /\ ("auth" \in e.message \/ "key" \in e.message)) =>
               /\ call.result.value.code = "AUTHENTICATION"
               /\ ~call.result.value.retryable
               /\ call.invoked = 1

StringForm(v) ==
    CASE v.t = "string" -> v.message
      [] v.t = "undefined" -> {"undefined"}
      [] v.t = "object" -> {"[object Object]"}

\* C17: with at least one attempt configured, an operation that throws a
\* value that is no Error (a string, an object, undefined) is rejected after
\* exactly one attempt with a classified error of kind UNKNOWN, not
\* retryable, whose message is the string form of the value.
C17_NonErrorIsUnknown ==
    \A c \in 1..Len(calls) :
        LET call == calls[c]
            e == call.op[1].error
        IN (/\ cfg.maxRetries >= 1
            /\ call.pc = "rejected"
            /\ Admitted(call)
            /\ e.t \in {"string", "undefined", "object"}) =>
               /\ call.invoked = 1
               /\ IsAIError(call.result.value)
               /\ call.result.value.code = "UNKNOWN"
               /\ ~call.result.value.retryable
               /\ call.result.value.message = StringForm(e)

-----------------------------------------------------------------------------
(* Claims about the backoff, checked under SpecBackoff *)

\* C19: the wait after the k-th failed attempt is BaseDelay * 2^(k-1), or
\* MaxDelay when that is more; the waits of a request never decrease and never
\* exceed MaxDelay; no wait follows the last attempt the configuration
\* allows, and a request that has ended has waited once between any two of
\* its attempts and not after the last.
C19_BackoffSchedule ==
    \A c \in 1..Len(calls) :
        LET call == calls[c]
            w == call.waits
        IN /\ \A k \in 1..Len(w) :
                 /\ w[k] = IF BaseDelay * Pow2(k - 1) <= MaxDelay
                           THEN BaseDelay * Pow2(k - 1)
                           ELSE MaxDelay
                 /\ w[k] <= MaxDelay
                 /\ k > 1 => w[k - 1] <= w[k]
           /\ Len(w) <= IF cfg.maxRetries >= 1 THEN cfg.maxRetries - 1 ELSE 0
           /\ call.pc = "backoff" => call.invoked < cfg.maxRetries
           /\ (call.pc \in {"settling", "resolved", "rejected"} /\ call.invoked >= 1) =>
                 Len(w) = call.invoked - 1

\* All ten attempts failed: nine waits, capped from the sixth on
C19_Witness ==
    \E c \in 1..Len(calls) :
        /\ calls[c].pc = "rejected"
        /\ calls[c].invoked = MaxRetriesLimit
        /\ calls[c].waits =
              <<1000, 2000, 4000, 8000, 16000, 30000, 30000, 30000, 30000>>

-----------------------------------------------------------------------------
(* Claims about the metrics, checked under SpecLatency *)

Completed == Cardinality({c \in 1..Len(calls) : calls[c].pc \in {"resolved", "rejected"}})

\* The sum of the elapsed times of the completed requests: the time the last
\* of them ended, which is when the running one, if any, began
ElapsedTotal == IF Quiet THEN now ELSE calls[Len(calls)].startTime

\* C20: on a fresh instance serving requests one after the other, the count
\* successfulRequests + failedRequests is the number of completed requests,
\* and after each of them averageResponseTime is the sum of their elapsed
\* times divided by that count; it is 0 before the first.
C20_RunningAverage ==
    LET n == metricsData.successfulRequests + metricsData.failedRequests
    IN /\ n = Completed
       /\ metricsData.averageResponseTime =
             IF n = 0 THEN Ratio(0, 1) ELSE Ratio(ElapsedTotal, n)
       /\ metrics.averageResponseTime = metricsData.averageResponseTime

\* Three successful requests of 10, 20 and 30 ms: the average is 20
C20_Witness ==
    /\ Len(calls) = 3
    /\ Quiet
    /\ metricsData.successfulRequests = 3
    /\ calls[1].startTime = 0
    /\ calls[2].startTime = 10
    /\ calls[3].startTime = 30
    /\ now = 60
    /\ metricsData.averageResponseTime = <<20, 1>>

-----------------------------------------------------------------------------
(* Claims about the configuration of a constructed client (SpecConfig) *)

Settings == {"endpoint", "timeout", "maxRetries", "cacheTtl", "debug"}

CallKey(options) ==
    IF "string" \in DOMAIN options THEN options.string ELSE options.apiKey

CallConfig(options) ==
    IF "string" \in DOMAIN options THEN EmptyObject
    ELSE IF options.config = None THEN EmptyObject
    ELSE options.config[1]

\* the value the ALCHEMYST_* variable of a setting stands for, None when unset
EnvSetting(env, setting) ==
    CASE setting = "endpoint" -> env.ALCHEMYST_ENDPOINT
      [] setting = "timeout" -> Coerced(env.ALCHEMYST_TIMEOUT)
      [] setting = "maxRetries" -> Coerced(env.ALCHEMYST_MAX_RETRIES)
      [] setting = "cacheTtl" -> Coerced(env.ALCHEMYST_CACHE_TTL)
      [] setting = "debug" ->
            IF env.ALCHEMYST_DEBUG = None THEN None
            ELSE Some(env.ALCHEMYST_DEBUG[1] \in {"true", "1"})

BuiltInDefault(setting) ==
    IF setting = "endpoint" THEN DefaultEndpoint ELSE DEFAULT_CONFIG[setting][1]

ByPrecedence(env, options, setting) ==
    IF setting \in DOMAIN CallConfig(options) THEN CallConfig(options)[setting][1]
    ELSE IF EnvSetting(env, setting) # None THEN EnvSetting(env, setting)[1]
    ELSE BuiltInDefault(setting)

Configured == ret.op = "initAlchemystClient"
Constructed == Configured /\ ret.outcome.ok

\* C23: in the final configuration of a constructed client each of endpoint,
\* timeout, maxRetries, cacheTtl and debug is the call-time option when one is
\* given, otherwise the value of its ALCHEMYST_* variable when that is set,
\* otherwise the built-in default, whatever NODE_ENV is.
C23_Precedence ==
    Constructed =>
        \A setting \in Settings :
            ret.outcome.value[setting] = ByPrecedence(ret.env, ret.options, setting)

OnlyApiKeyGiven ==
    /\ Configured
    /\ CallKey(ret.options) # <<>>
    /\ CallConfig(ret.options) = EmptyObject
    /\ \A setting \in Settings : EnvSetting(ret.env, setting) = None
    /\ ret.env.NODE_ENV = None

\* C24: when the caller gives only an API key and no environment variable
\* other than an API key is set, the constructed client's configuration has
\* timeout 30000, maxRetries 3, enableCache true, cacheTtl 300, debug false.
C24_Defaults ==
    (OnlyApiKeyGiven /\ Constructed) =>
        /\ ret.outcome.value.timeout = 30000
        /\ ret.outcome.value.maxRetries = 3
        /\ ret.outcome.value.enableCache = TRUE
        /\ ret.outcome.value.cacheTtl = 300
        /\ ret.outcome.value.debug = FALSE

\* the API key the client would be built with: the call-time one, else the
\* first non-empty API-key variable
EffectiveApiKey ==
    IF CallKey(ret.options) # <<>> THEN CallKey(ret.options)
    ELSE ExtractApiKey(ret.env)

\* C30: a call with a non-empty call-time apiKey returns a client whether or
\* not an API-key variable is set in the environment; construction is refused
\* only when the effective apiKey is empty.
C30_CallTimeKeySuffices ==
    Configured =>
        /\ CallKey(ret.options) # <<>> => ret.outcome.ok
        /\ ~ret.outcome.ok => EffectiveApiKey = <<>>

-----------------------------------------------------------------------------
(* Claims about the cache's rates and edge capacities (SpecCache) *)

\* The step is a call get(key) that returned a value / returned absent
IsHit(key) == IsGet(key) /\ ret'.value # NoValue
IsMiss(key) == IsGet(key) /\ ret'.value = NoValue

\* C25: every get counts as exactly one hit or one miss, no other call but
\* clear touches the two counters, and getStats reports hitRate = H/(H+M) and
\* missRate = M/(H+M) for the H hits and M misses counted since the last
\* clear: the two add up to 1 when H+M > 0 and are both 0 when H+M = 0.
C25_HitRateMath ==
    [][LET H == cache.stats.hits
           M == cache.stats.misses
           reads == {key \in Keys : IsGet(key)}
       IN /\ \A key \in Keys :
                /\ IsHit(key) => cache'.stats.hits = H + 1 /\ cache'.stats.misses = M
                /\ IsMiss(key) => cache'.stats.hits = H /\ cache'.stats.misses = M + 1
          /\ reads = {} =>
                \/ cache'.stats.hits = H /\ cache'.stats.misses = M
                \/ cache' = CacheClear(cache)
          /\ ret'.op = "getStats" =>
                LET hitRate == ret'.value.hitRate
                    missRate == ret'.value.missRate
                IN IF H + M > 0
                   THEN /\ hitRate[1] * (H + M) = H * hitRate[2]
                        /\ missRate[1] * (H + M) = M * missRate[2]
                        /\ hitRate[1] * missRate[2] + missRate[1] * hitRate[2]
                              = hitRate[2] * missRate[2]
                   ELSE hitRate[1] = 0 /\ missRate[1] = 0]_vars

\* getStats after one hit and two misses: rates 1/3 and 2/3
C25_Witness ==
    /\ ret.op = "getStats"
    /\ cache.stats.hits = 1
    /\ cache.stats.misses = 2
    /\ ret.value.hitRate = <<1, 3>>
    /\ ret.value.missRate = <<2, 3>>

\* C26: with maxSize = 0 the cache holds no entry after set(k, v), and a
\* get(k) right after it returns absent and counts a miss.
C26_ZeroCapacity ==
    [][\A key \in Keys :
         cache.maxSize = 0 =>
            /\ IsSet(key) => cache'.entries = <<>>
            /\ (IsGet(key) /\ ret.op = "set" /\ ret.key = key) =>
                  /\ ret'.value = NoValue
                  /\ cache'.stats.misses = cache.stats.misses + 1]_vars

\* C27: with a time-to-live of 0 a get of a key that was set returns absent
\* and counts a miss at every clock value, the clock value of the set included.
C27_ZeroTtl ==
    [][\A key \in Keys :
         (cache.ttl = 0 /\ IsGet(key) /\ key \in KeysOf(cache.entries)) =>
            /\ ret'.value = NoValue
            /\ cache'.stats.misses = cache.stats.misses + 1
            /\ cache'.stats.hits = cache.stats.hits]_vars

-----------------------------------------------------------------------------
(* Claims about the tools (SpecTools) *)

\* C28: the execute function of a tool never rejects; when the backend call
\* fails with any thrown value it resolves to an object with success = false
\* whose message field is the Error's message or the string form of the value
\* thrown, and when the backend call succeeds to one with success = true.
C28_ToolsNeverReject ==
    (ret.op = "execute" /\ ret.called) =>
        /\ ret.outcome.ok
        /\ IF ret.backend.ok
           THEN ret.outcome.value.success = TRUE
           ELSE /\ ret.outcome.value.success = FALSE
                /\ "message" \in DOMAIN ret.outcome.value
                /\ ErrorText(ret.backend.error).ok
                /\ ret.outcome.value.message = ErrorText(ret.backend.error).value

-----------------------------------------------------------------------------
(* Claims about the wrapped generation function (SpecMemory) *)

\* the memory search, or the memory store, of the call failed
MemoryFailed ==
    \/ ret.searched /\ ~ret.search.ok
    \/ ret.stored /\ ~ret.store.ok

\* C29: when the generation function resolves, a call of the wrapped function
\* whose memory search or memory store fails has invoked the generation
\* function exactly once and resolves with its result instead of rejecting.
C29_MemoryNeverBreaksGeneration ==
    (ret.op = "generate" /\ ret.generate.ok /\ MemoryFailed) =>
        /\ ret.generated = 1
        /\ ret.outcome.ok
        /\ ret.outcome.value.kind = ret.generate.result.kind
        /\ ret.generate.result.kind = "text" =>
              ret.outcome.value.text = ret.generate.result.text

-----------------------------------------------------------------------------
(* Claims about the sweep and the eviction order of the cache (SpecCache) *)

\* the keys of the entries whose time-to-live has not elapsed at time t
Unexpired(c, t) ==
    {c.entries[i].key : i \in {j \in 1..Len(c.entries) : t - c.entries[j].timestamp <= c.ttl}}

\* C31: right after a set at time t no stored entry has t - timestamp > ttl;
\* the entries the sweep removed do not count as evictions; and an entry is
\* evicted for capacity, one at most, only if the cache is still full after
\* the sweep.
C31_SetSweepsFirst ==
    [][\A key \in Keys :
         IsSet(key) =>
            LET survivors == Unexpired(cache, now)
                evicted == cache'.stats.evictions - cache.stats.evictions
            IN /\ NoneExpired(cache', now)
               /\ evicted \in {0, 1}
               /\ evicted = 1 => Cardinality(survivors) >= cache.maxSize
               /\ evicted = 0 => KeysOf(cache'.entries) = survivors \cup {key}
               /\ evicted = 1 =>
                     \E victim \in survivors :
                        (survivors \ {victim}) \cup {key} = KeysOf(cache'.entries) \cup {key}]_vars

\* Two sets and no get: the second one, past the first entry's time-to-live in
\* a cache of capacity 1, swept the first entry and evicted nothing.
C31_Witness ==
    /\ ret.op = "set"
    /\ used = 2
    /\ cache.stats = [hits |-> 0, misses |-> 0, evictions |-> 0]
    /\ cache.maxSize = 1
    /\ cache.ttl > 0
    /\ now > cache.ttl
    /\ Len(cache.entries) = 1
    /\ cache.entries[1].timestamp = now

\* the keys of a cache in iteration order
KeyOrder(c) == [i \in 1..Len(c.entries) |-> c.entries[i].key]

C33_EvictsOldest ==
    [][\A key \in Keys :
         (IsSet(key) /\ cache'.stats.evictions = cache.stats.evictions + 1) =>
            LET present == Cleanup(cache, now).entries
                gone == {i \in 1..Len(present) : present[i].key \notin KeysOf(cache'.entries)}
                victims == IF gone = {}
                           THEN {i \in 1..Len(present) : present[i].key = key}
                           ELSE gone
            IN \A i \in victims, j \in 1..Len(present) :
                  present[i].timestamp <= present[j].timestamp]_vars

\* C34: a set on a key that is present and unexpired removes no unexpired
\* entry, leaves the eviction counter alone and stores the new value with the
\* current time, at capacity as well as below it (capacities of 1 and more).
C34_OverwriteInPlace ==
    [][\A key \in Keys :
         (IsSet(key) /\ cache.maxSize >= 1 /\ key \in Unexpired(cache, now)) =>
            /\ Unexpired(cache, now) \subseteq KeysOf(cache'.entries)
            /\ Len(cache'.entries) >= Cardinality(Unexpired(cache, now))
            /\ cache'.stats.evictions = cache.stats.evictions
            /\ EntryOf(cache', key).value = ValueOf(used')
            /\ EntryOf(cache', key).timestamp = now]_vars

-----------------------------------------------------------------------------
(* Termination of execute                                                  *)

\* C35 as stated: an admitted call makes at most maxRetries invocations and at
\* most maxRetries - 1 backoff waits.
C35_WaitsBelowRetries ==
    \A c \in 1..Len(calls) :
        Admitted(calls[c]) =>
           /\ calls[c].invoked <= cfg.maxRetries
           /\ Len(calls[c].waits) <= cfg.maxRetries - 1

\* C35: every admitted call eventually resolves or rejects when operations
\* settle and timers fire; it makes at most maxRetries invocations, and a wait
\* only between two invocations: at most maxRetries - 1 of them when
\* maxRetries >= 1, none when maxRetries = 0.
C35_Settles ==
    /\ [](\A c \in 1..Len(calls) :
            Admitted(calls[c]) =>
               /\ calls[c].invoked <= cfg.maxRetries
               /\ Len(calls[c].waits) <= (IF cfg.maxRetries >= 1 THEN cfg.maxRetries - 1 ELSE 0)
               /\ HasSettled(calls[c]) =>
                     Len(calls[c].waits) = (IF calls[c].invoked >= 1 THEN calls[c].invoked - 1 ELSE 0))
    /\ \A c \in 1..MaxCalls :
          (c <= Len(calls)) ~> (c <= Len(calls) /\ HasSettled(calls[c]))

\* With maxRetries = 2 a call used both invocations and one wait and resolved,
\* while another call overlapped it
C35_Witness ==
    /\ cfg.maxRetries = 2
    /\ Len(calls) = 2
    /\ calls[1].pc = "resolved"
    /\ calls[1].invoked = 2
    /\ Len(calls[1].waits) = 1
    /\ calls[2].startTime = 0
    /\ HasSettled(calls[2])

-----------------------------------------------------------------------------
(* Calls in flight                                                         *)

\* C36: once dispose() has returned, no step of the instance invokes the
\* operation and none changes the metrics, the steps of calls that were in
\* flight when dispose was called included.
C36_QuietAfterDispose ==
    [][disposed =>
          /\ metricsData' = metricsData
          /\ \A c \in 1..Len(calls') :
                calls'[c].invoked = (IF c <= Len(calls) THEN calls[c].invoked ELSE 0)]_vars

\* C37: in every state, resets during calls in flight included, getMetrics()
\* reports successfulRequests + failedRequests <= totalRequests, and the
\* public metrics property shows the same three counters.
C37_CountersConsistent ==
    LET m == GetMetrics(metricsData, cache, now)
    IN /\ m.successfulRequests + m.failedRequests <= m.totalRequests
       /\ metrics.totalRequests = m.totalRequests
       /\ metrics.successfulRequests = m.successfulRequests
       /\ metrics.failedRequests = m.failedRequests

-----------------------------------------------------------------------------
(* The response cache of an instance                                       *)

\* C38: whatever calls of execute and executeWithContext were made, the cache
\* statistics are size 0, hitRate 0, missRate 0 and evictions 0, getMetrics()
\* reports cacheHits = 0 and cacheMisses = 0, and every admitted call, a
\* repetition of an earlier operation included, has invoked the operation.
C38_CacheBypassed ==
    /\ GetStats(cache) = [size |-> 0, hitRate |-> <<0, 1>>, missRate |-> <<0, 1>>,
                          evictions |-> 0]
    /\ GetMetrics(metricsData, cache, now).cacheHits = <<0, 1>>
    /\ GetMetrics(metricsData, cache, now).cacheMisses = <<0, 1>>
    /\ \A c \in 1..Len(calls) : Admitted(calls[c]) => calls[c].invoked >= 1

-----------------------------------------------------------------------------
(* Instances handed out by the registry                                    *)

\* C39: two initAlchemystClient calls whose API keys differ never return the
\* same instance.
C39_KeysApart ==
    \A i \in 1..Len(initLog) : \A j \in 1..Len(initLog) :
        initLog[i].config.apiKey # initLog[j].config.apiKey =>
            initLog[i].instance # initLog[j].instance

\* C40: when disposeAllClients returns, every instance that initAlchemystClient
\* has returned so far is disposed, debug instances whose registry entry a
\* later instance took over included.
C40_AllEverReturned ==
    [][DisposeAllClients =>
          \A n \in 1..Len(initLog) : instances'[initLog[n].instance].disposed]_vars

====
